---- MODULE Spec2Model ----
\* WSA terminal (housey345/wsa): the console shell (wsa_console.py,
\* WSAConsoleTerminal) and the web shell (wsa.py, AmigaTerminal) as one state
\* machine over the session state: current directory, prompt, the directory
\* and file maps, the mounted shared folders, the command history and the host
\* filesystem the DH0: and shared-folder devices look at.
\*
\* Python str values are TLA+ strings; Len, \o and SubSeq act on them as on
\* sequences of characters.
EXTENDS Integers, Sequences, FiniteSets, TLC

VARIABLES
    impl,             \* "console" (wsa_console.py) or "web" (wsa.py)
    platform,         \* platform.system(): "Windows" or "Linux"
    current_dir,      \* self.current_dir
    prompt,           \* self.prompt
    directories,      \* self.directories: path -> list of child names
    files,            \* self.files: path -> content
    command_history,  \* AmigaTerminal.command_history
    mounted,          \* emulator_integration.mounted_shared_folders: device -> host path
    host_dirs,        \* directories that exist on the host filesystem
    host_files,       \* files on the host filesystem: host path -> content
    pc,               \* "prompt": waiting for a line; "dispatch": a line is read
    input,            \* the line read last, as typed
    last,             \* the handler that ran the line and what it resolved
    output,           \* the text the command printed or returned
    script,           \* the lines of the script being run, <<>> when none is
    line_no,          \* the number of script lines the run has gone through
    stack             \* the runs of stored scripts that execute has under way, innermost last

vars == <<impl, platform, current_dir, prompt, directories, files,
          command_history, mounted, host_dirs, host_files, pc, input, last, output,
          script, line_no, stack>>

-----------------------------------------------------------------------------
\* Python str operations

LowerLetters == "abcdefghijklmnopqrstuvwxyz"
UpperLetters == "ABCDEFGHIJKLMNOPQRSTUVWXYZ"
DigitChars == "0123456789"

Char(s, i) == SubSeq(s, i, i)

\* s[n:]
Skip(s, n) == SubSeq(s, n + 1, Len(s))

\* s[:n]
Take(s, n) == SubSeq(s, 1, IF n < Len(s) THEN n ELSE Len(s))

StartsWith(s, p) == Len(p) <= Len(s) /\ SubSeq(s, 1, Len(p)) = p

EndsWith(s, p) == Len(p) <= Len(s) /\ SubSeq(s, Len(s) - Len(p) + 1, Len(s)) = p

\* c in s, for a one-character c
Contains(s, c) == \E i \in 1..Len(s) : Char(s, i) = c

\* s.find(c) + 1, 0 when absent
IndexOf(s, c) ==
    LET hits == {i \in 1..Len(s) : Char(s, i) = c}
    IN  IF hits = {} THEN 0 ELSE CHOOSE i \in hits : \A j \in hits : i <= j

\* s.split(c) for a one-character c
RECURSIVE Split(_, _)
Split(s, c) ==
    LET i == IndexOf(s, c)
    IN  IF i = 0 THEN <<s>> ELSE <<Take(s, i - 1)>> \o Split(Skip(s, i), c)

\* c.join(parts)
RECURSIVE Join(_, _)
Join(parts, c) ==
    IF Len(parts) = 0 THEN ""
    ELSE IF Len(parts) = 1 THEN parts[1]
    ELSE parts[1] \o c \o Join(Tail(parts), c)

\* parts[:-1]
Front(parts) == SubSeq(parts, 1, Len(parts) - 1)

RECURSIVE LStrip(_)
LStrip(s) == IF Len(s) > 0 /\ Char(s, 1) = " " THEN LStrip(Skip(s, 1)) ELSE s

RECURSIVE RStrip(_)
RStrip(s) == IF Len(s) > 0 /\ Char(s, Len(s)) = " " THEN RStrip(Take(s, Len(s) - 1)) ELSE s

\* s.strip()
Strip(s) == LStrip(RStrip(s))

\* s.split(): the whitespace-separated tokens
RECURSIVE Words(_)
Words(s) ==
    LET t == LStrip(s)
        i == IndexOf(t, " ")
    IN  IF Len(t) = 0 THEN <<>>
        ELSE IF i = 0 THEN <<t>>
        ELSE <<Take(t, i - 1)>> \o Words(Skip(t, i))

\* x in lst
InList(x, lst) == \E i \in 1..Len(lst) : lst[i] = x

-----------------------------------------------------------------------------
\* Bounds and the command lines of a session

\* directories a session creates with makedir
MaxNewDirs == 1

\* command lines the web shell records in its history
MaxHistory == 2

\* the most lines a file saved by the editor holds
MaxEdLines == 2

CdLines ==
    {"cd", "cd ..", "cd ../Prefs", "cd ../nodir", "cd Prefs", "cd T", "cd RAM:",
     "cd ram:", "cd DH0:", "cd Windows", "cd SHARED:", "cd shared", "cd SHARED:/sub",
     "cd NOPE:", "cd nodir"}

ShorthandLines == {"SYS:", "ram:", "s:", "RAM: x", " dh0:"}

DirLines == {"dir", "dir x", "dir s:x", "dir T:", "dir SHARED:"}

MountLines == {"mount SHARED: from winuae a1200.uae", "mount unmount SHARED:", "mount"}

\* the lines of a console session that mounts and unmounts
MountSessionLines ==
    MountLines \cup {"mount DH0: from winuae a1200.uae", "mount unmount dh0",
                     "mount SYS: from winuae a1200.uae", "mount unmount SYS:",
                     "mount list", "mount unmount", "mount SHARED: from fs-uae x"}

\* the lines of a console session that runs beside another one
BesideLines ==
    {"type DH0:n.txt", "copy C:Info DH0:n.txt", "type note", "copy C:Echo note",
     "delete DH0:n.txt", "delete note"}

\* the lines of a console session that stores scripts and runs them
ExecuteSessionLines ==
    {"ed loop", "ed back", "execute loop", "execute C:Echo", "execute S/Startup-Sequence",
     "execute nofile", "execute"}

\* the lines of a console session that matches patterns
PatternSessionLines ==
    {"cd C:", "cd S", "cd DH0:", "cd SYS:", "pattern *", "pattern ~E", "pattern Echo",
     "pattern ~Start", "pattern #?", "pattern"}

ConsoleLines == CdLines \cup ShorthandLines \cup DirLines \cup MountLines \cup {"bogus"}

\* the lines of a console session that makes directories
MakedirLines ==
    {"makedir a/b", "makedir shared", "makedir DH0:/Windows", "makedir", "cd a/b",
     "cd shared", "cd ..", "cd RAM:", "cd T", "mount SHARED: from winuae a1200.uae"}

\* the lines of a console session that changes the store and lists it
StoreLines ==
    {"makedir docs", "makedir a/b", "makedir RAM:x", "makedir Tools", "makedir Prefs",
     "copy C:Echo note", "copy C:Echo DH0:n.txt", "copy", "cd RAM:", "cd docs", "dir",
     "dir RAM:", "dir DH0:", "dir C:", "dir Prefs"}

\* the lines of a console session that writes, reads and deletes files
FileLines ==
    {"makedir note", "copy C:Echo note", "copy C:Info note", "copy C:Echo DH0:new/n.txt",
     "copy C:Echo DH0:/Windows/explorer.exe", "type note", "type DH0:new/n.txt",
     "type DH0:/Windows/explorer.exe", "delete note", "ed note", "ed DH0:n.txt"}

WebLines ==
    {"cd ..", "cd ../Prefs", "cd Prefs", "cd T", "cd RAM:", "cd ram:", "cd Windows",
     "cd nodir", "cd", "SYS:", "RAM:", "s:", "dh0:", "RAM: x", "dir", "bogus", ""}

-----------------------------------------------------------------------------
\* str.upper and str.lower, letter by letter
ToUpper == [c \in {Char(LowerLetters, i) : i \in 1..26} |->
              Char(UpperLetters, CHOOSE i \in 1..26 : Char(LowerLetters, i) = c)]

ToLower == [c \in {Char(UpperLetters, i) : i \in 1..26} |->
              Char(LowerLetters, CHOOSE i \in 1..26 : Char(UpperLetters, i) = c)]

UpperChar(c) == IF c \in DOMAIN ToUpper THEN ToUpper[c] ELSE c

LowerChar(c) == IF c \in DOMAIN ToLower THEN ToLower[c] ELSE c

\* s.upper()
RECURSIVE Upper(_)
Upper(s) == IF Len(s) = 0 THEN "" ELSE UpperChar(Char(s, 1)) \o Upper(Skip(s, 1))

\* s.lower()
RECURSIVE Lower(_)
Lower(s) == IF Len(s) = 0 THEN "" ELSE LowerChar(Char(s, 1)) \o Lower(Skip(s, 1))

\* A Python dict is the sequence of its <<key, value>> items in insertion
\* order, each key once.

\* k in d
Has(d, k) == \E i \in 1..Len(d) : d[i][1] = k

\* d[k]
Get(d, k) == d[CHOOSE i \in 1..Len(d) : d[i][1] = k][2]

\* d[k] = v: in place for a key of d, at the end for a new key
Put(d, k, v) ==
    IF Has(d, k) THEN [i \in 1..Len(d) |-> IF d[i][1] = k THEN <<k, v>> ELSE d[i]]
    ELSE Append(d, <<k, v>>)

\* del d[k]
Del(d, k) == SelectSeq(d, LAMBDA item : item[1] # k)

\* list(d.keys())
Keys(d) == [i \in 1..Len(d) |-> d[i][1]]

-----------------------------------------------------------------------------
\* Host filesystem.  A host path is kept in normal form: the drive ("" on
\* Linux, "C:" on Windows), then "/" and the segments joined by "/"; both
\* path separators of the source are written "/" here.

HostShare == IF platform = "Windows" THEN "C:/share" ELSE "/srv/share"

\* EmulatorSharedFolder.winuae_configs after the scan of the configuration
\* directory: config name -> device -> host path
WinUAEConfigs ==
    ("a1200.uae" :> (("SHARED:" :> [path |-> HostShare, label |-> "Share"])
                     @@ ("DH0:" :> [path |-> HostShare, label |-> "System"])))

\* EmulatorSharedFolder.fsuae_configs: no FS-UAE configuration on this host
FsUAEConfigs == [c \in {} |-> <<>>]

RECURSIVE NormSegs(_, _)
NormSegs(segs, acc) ==
    IF Len(segs) = 0 THEN acc
    ELSE LET h == Head(segs)
         IN  IF h = "" \/ h = "." THEN NormSegs(Tail(segs), acc)
             ELSE IF h = ".."
                  THEN NormSegs(Tail(segs), IF Len(acc) > 0 THEN Front(acc) ELSE acc)
                  ELSE NormSegs(Tail(segs), Append(acc, h))

\* os.path.normpath(os.path.join(base, sub)): a sub path that starts with a
\* separator replaces the base (on Windows: everything after the drive)
FsPath(base, sub) ==
    LET drive == IF platform = "Windows" THEN Take(base, 2) ELSE ""
        rest  == IF platform = "Windows" THEN Skip(base, 2) ELSE base
        segs  == NormSegs((IF StartsWith(sub, "/") THEN <<>> ELSE Split(rest, "/"))
                          \o Split(sub, "/"), <<>>)
    IN  drive \o "/" \o Join(segs, "/")

\* os.path.exists(p) and os.path.isdir(p)
HostIsDir(p) == p \in host_dirs

\* is_wsl = os.path.exists("/mnt/c"), is_windows = platform.system() == "Windows"
IsWsl == "/mnt/c" \in host_dirs
IsWindows == platform = "Windows"

\* the host directory the console maps a DH0: path onto (with sub_path the
\* path after "DH0:" and one leading "/")
DH0SubPath(path) ==
    LET sub == Skip(path, 4)
    IN  IF StartsWith(sub, "/") THEN Skip(sub, 1) ELSE sub

ConsoleDH0FsPath(path) ==
    FsPath(IF IsWsl THEN "/mnt/c" ELSE "C:/", DH0SubPath(path))

-----------------------------------------------------------------------------
\* WSAConsoleTerminal._change_directory

CdResult(cur, pr, text) == [current_dir |-> cur, prompt |-> pr, result |-> text]

CdTo(new_dir) == CdResult(new_dir, new_dir \o "> ", "")

\* device = path.split('/')[0] if '/' in path else path, upper-cased, with
\* a ":" appended when missing
DeviceOf(path) ==
    LET d == Upper(IF Contains(path, "/") THEN Split(path, "/")[1] ELSE path)
    IN  IF EndsWith(d, ":") THEN d ELSE d \o ":"

\* the directory one level above cur, as both ".." branches compute it
ParentDir(cur) ==
    LET parts == Split(cur, ":")
    IN  IF Len(parts) > 1 /\ parts[2] # ""
        THEN LET parent_parts == Split(parts[2], "/")
             IN  IF Len(parent_parts) > 1
                 THEN parts[1] \o ":" \o Join(Front(parent_parts), "/")
                 ELSE parts[1] \o ":"
        ELSE "SYS:"

ChangeSharedFolderDirectory(cur, pr, path, device) ==
    LET base_path == mounted[device].path
        sub == Skip(path, Len(device))
        sub_path == IF StartsWith(sub, "/") THEN Skip(sub, 1) ELSE sub
        fs_path == FsPath(base_path, sub_path)
    IN  IF path = device THEN CdTo(device)
        ELSE IF ~HostIsDir(fs_path)
             THEN CdResult(cur, pr, "Directory " \o path \o " not found.")
             ELSE CdTo(path)

\* a "../x" branch that stays in the parent when x is not found there
CdUpThenStaysUp(cur, pr, path) ==
    LET target_path == Skip(path, 3)
        parent_dir == ParentDir(cur)
        new_path == IF EndsWith(parent_dir, ":") THEN parent_dir \o target_path
                    ELSE parent_dir \o "/" \o target_path
    IN  IF target_path # ""
        THEN IF Has(directories, new_path) THEN CdTo(new_path)
             ELSE CdResult(parent_dir, parent_dir \o "> ",
                           "Directory " \o target_path \o " not found.")
        ELSE CdTo(parent_dir)

\* the "../x" branch: one level up, then x below the parent
CdUpThen(cur, pr, path) ==
    LET target_path == Skip(path, 3)
        parent_dir == ParentDir(cur)
        new_path == IF EndsWith(parent_dir, ":") THEN parent_dir \o target_path
                    ELSE parent_dir \o "/" \o target_path
    IN  IF target_path # ""
        THEN IF Has(directories, new_path) THEN CdTo(new_path)
             ELSE CdResult(cur, pr, "Directory " \o target_path \o " not found.")
        ELSE CdTo(parent_dir)

\* an absolute path, one that holds a ":"
CdAbsolute(cur, pr, path) ==
    IF StartsWith(Upper(path), "DH0:")
    THEN IF (IsWsl \/ IsWindows) /\ HostIsDir(ConsoleDH0FsPath(path))
         THEN CdTo(path)
         ELSE CdResult(cur, pr, "Directory " \o path \o " not found.")
    ELSE IF Has(directories, path) THEN CdTo(path)
         ELSE CdResult(cur, pr, "Directory " \o path \o " not found.")

\* a relative path
CdRelative(cur, pr, path) ==
    IF StartsWith(Upper(cur), "DH0:")
    THEN LET new_path == IF Upper(cur) = "DH0:" THEN "DH0:/" \o path
                         ELSE cur \o "/" \o path
         IN  IF (IsWsl \/ IsWindows) /\ HostIsDir(ConsoleDH0FsPath(new_path))
             THEN CdTo(new_path)
             ELSE CdResult(cur, pr, "Directory " \o path \o " not found.")
    ELSE LET new_path == IF cur = "SYS:" THEN "SYS:" \o path ELSE cur \o "/" \o path
         IN  IF Has(directories, new_path) THEN CdTo(new_path)
             ELSE IF Has(directories, cur) /\ InList(path, Get(directories, cur))
                  THEN CdTo(new_path)
                  ELSE CdResult(cur, pr, "Directory " \o path \o " not found.")

ChangeDirectory(cur, pr, path) ==
    IF DeviceOf(path) \in DOMAIN mounted
    THEN ChangeSharedFolderDirectory(cur, pr, path, DeviceOf(path))
    ELSE IF Upper(path) = "DH0:" THEN CdTo("DH0:")
    ELSE IF path = ".." \/ StartsWith(path, "../")
         THEN IF cur = "SYS:" THEN CdResult(cur, pr, "Already at root directory.")
              ELSE IF StartsWith(path, "../") THEN CdUpThen(cur, pr, path)
              ELSE CdTo(ParentDir(cur))
    ELSE IF Contains(path, ":") THEN CdAbsolute(cur, pr, path)
    ELSE CdRelative(cur, pr, path)

-----------------------------------------------------------------------------
\* AmigaTerminal.change_directory (wsa.py); results end with a newline

\* the host path of a DH0: path on Windows; os.path.exists resolves the
\* path as normpath does, and a trailing separator names the same directory
WebDH0FsPath(path) == FsPath("C:/", DH0SubPath(path))

\* one DH0: lookup on Windows: the path itself, then the path with a
\* trailing separator, then the Amiga path with a trailing "/"
WebCdDH0(cur, pr, path, new_path) ==
    LET fs_path == WebDH0FsPath(new_path)
        fs_path_alt == WebDH0FsPath(new_path \o "/")
    IN  IF HostIsDir(fs_path) THEN CdTo(new_path)
        ELSE IF ~EndsWith(new_path, "/") /\ HostIsDir(fs_path_alt)
             THEN CdTo(new_path \o "/")
             ELSE CdResult(cur, pr, "Directory " \o path \o " not found.\n")

WebCdAbsolute(cur, pr, path) ==
    IF StartsWith(Upper(path), "DH0:") /\ IsWindows
    THEN WebCdDH0(cur, pr, path, path)
    ELSE IF Has(directories, path) THEN CdTo(path)
         ELSE CdResult(cur, pr, "Directory " \o path \o " not found.\n")

WebCdRelative(cur, pr, path) ==
    IF StartsWith(cur, "DH0:") /\ IsWindows
    THEN WebCdDH0(cur, pr, path,
                  IF cur = "DH0:" THEN "DH0:" \o path ELSE cur \o "/" \o path)
    ELSE LET new_path == IF cur = "SYS:" THEN "SYS:" \o path ELSE cur \o "/" \o path
         IN  IF Has(directories, new_path) THEN CdTo(new_path)
             ELSE IF Has(directories, cur) /\ InList(path, Get(directories, cur))
                  THEN CdTo(new_path)
                  ELSE CdResult(cur, pr, "Directory " \o path \o " not found.\n")

WebChangeDirectory(cur, pr, path) ==
    IF Upper(path) = "DH0:" THEN CdTo("DH0:")
    ELSE IF path = "" THEN CdResult(cur, pr, "Usage: CD <directory>\n")
    ELSE IF path = ".."
         THEN IF cur = "SYS:" THEN CdResult(cur, pr, "Already at root directory.\n")
              ELSE CdTo(ParentDir(cur))
    ELSE IF Contains(path, ":") THEN WebCdAbsolute(cur, pr, path)
    ELSE WebCdRelative(cur, pr, path)

-----------------------------------------------------------------------------
\* Path resolution of the console

\* logical_assignments, in the order of the dict
LogicalAssignments ==
    << <<"S:", "SYS:S">>, <<"L:", "SYS:L">>, <<"DEVS:", "SYS:DEVS">>,
       <<"FONTS:", "SYS:Fonts">>, <<"T:", "RAM:T">> >>

\* a lookup that takes the path in the letter case it was typed in
LogicalIndexAsTyped(path) ==
    LET hits == {i \in 1..Len(LogicalAssignments) :
                    StartsWith(path, LogicalAssignments[i][1])}
    IN  IF hits = {} THEN 0 ELSE CHOOSE i \in hits : \A j \in hits : i <= j

\* the first logical assignment the upper-cased path starts with, 0 if none
LogicalIndex(path) ==
    LET hits == {i \in 1..Len(LogicalAssignments) :
                    StartsWith(Upper(path), LogicalAssignments[i][1])}
    IN  IF hits = {} THEN 0 ELSE CHOOSE i \in hits : \A j \in hits : i <= j

\* WSAConsoleTerminal._resolve_path
ResolvePath(cur, path) ==
    IF path = "" THEN cur
    ELSE IF Contains(path, ":")
         THEN LET i == LogicalIndex(path)
              IN  IF i = 0 THEN path
                  ELSE LET remaining_path == Skip(path, Len(LogicalAssignments[i][1]))
                       IN  IF remaining_path # ""
                           THEN LogicalAssignments[i][2] \o "/" \o remaining_path
                           ELSE LogicalAssignments[i][2]
    ELSE IF Upper(cur) = "DH0:" THEN "DH0:/" \o path
    ELSE IF StartsWith(Upper(cur), "DH0:") THEN cur \o "/" \o path
    ELSE IF EndsWith(cur, ":") THEN cur \o path
    ELSE cur \o "/" \o path

\* WSAConsoleTerminal._resolve_file_path
ResolveFilePath(cur, filename) ==
    IF Contains(filename, ":") THEN filename
    ELSE IF EndsWith(cur, ":") THEN cur \o filename
    ELSE cur \o "/" \o filename

-----------------------------------------------------------------------------
\* Command-line parsing

\* the do_* methods of WSAConsoleTerminal (and cmd.Cmd's do_help)
ConsoleVerbs ==
    {"dir", "cd", "info", "avail", "status", "mount", "echo", "date", "help",
     "amiga", "ping", "winuae", "say", "pattern", "guru", "ed", "type", "copy",
     "delete", "makedir", "cls", "clear", "test", "exit", "quit", "execute"}

\* the key of self.directories whose upper-cased form is device
ActualDevice(device) ==
    LET keys == Keys(directories)
        i == CHOOSE i \in 1..Len(keys) :
                /\ Upper(keys[i]) = device
                /\ \A j \in 1..(i - 1) : Upper(keys[j]) # device
    IN  keys[i]

\* WSAConsoleTerminal.precmd: a bare device name becomes a cd command
Precmd(line) ==
    IF line # "" /\ EndsWith(Upper(line), ":")
    THEN LET device == Upper(line)
             hits == {i \in 1..Len(LogicalAssignments) : LogicalAssignments[i][1] = device}
         IN  IF hits # {} THEN "cd " \o LogicalAssignments[CHOOSE i \in hits : TRUE][2]
             ELSE IF \E i \in 1..Len(directories) : Upper(directories[i][1]) = device
                  THEN "cd " \o ActualDevice(device)
                  ELSE line
    ELSE line

\* cmd.Cmd.identchars
IdentChars == DOMAIN ToUpper \cup DOMAIN ToLower \cup {Char(DigitChars, i) : i \in 1..10} \cup {"_"}

IsIdentChar(c) == c \in IdentChars

\* the length of the longest prefix of s made of identifier characters
RECURSIVE IdentLen(_)
IdentLen(s) == IF Len(s) > 0 /\ IsIdentChar(Char(s, 1)) THEN 1 + IdentLen(Skip(s, 1)) ELSE 0

\* cmd.Cmd.parseline as called by onecmd: the stripped line, its leading
\* identifier as the command and the stripped remainder as the argument
Parseline(line) ==
    LET l == Strip(line)
        i == IdentLen(l)
    IN  [cmd |-> Take(l, i), arg |-> Strip(Skip(l, i)), line |-> l]

\* WSAConsoleTerminal.onecmd: the handler a line is dispatched to
Onecmd(line) ==
    LET p == Parseline(line)
    IN  IF p.line = "" THEN "emptyline"
        ELSE IF Lower(p.cmd) \in ConsoleVerbs THEN Lower(p.cmd)
        ELSE "default"

-----------------------------------------------------------------------------
\* State after construction

CommandNames ==
    <<"Info", "Avail", "Status", "Mount", "Ed", "Dir", "Cd", "Pattern", "Date", "Echo",
      "Help", "Amiga", "Ping">>

ConsoleDirectories ==
    << <<"SYS:", <<"Prefs", "Tools", "L", "S", "C", "DEVS", "Fonts", "WBStartup">> >>,
       <<"SYS:S", <<>> >>,
       <<"SYS:L", <<>> >>,
       <<"SYS:DEVS", <<>> >>,
       <<"SYS:Fonts", <<>> >>,
       <<"SYS:Prefs", <<"Env-Archive", "Env">> >>,
       <<"SYS:Prefs/Env-Archive", <<>> >>,
       <<"SYS:Prefs/Env", <<>> >>,
       <<"RAM:", <<"T">> >>,
       <<"RAM:T", <<>> >>,
       <<"C:", CommandNames \o <<"WinUAE", "Say", "Guru">> >>,
       <<"DH0:", <<>> >> >>

WebDirectories ==
    << <<"SYS:", <<"Prefs", "Tools", "L", "S", "C", "DEVS", "Fonts", "WBStartup">> >>,
       <<"RAM:", <<"T">> >>,
       <<"C:", CommandNames>>,
       <<"DH0:", <<>> >> >>

StartupSequence ==
    "; AmigaOS-style startup sequence\n; This script runs when the WSA Terminal starts\n\n; Mount additional volumes\n; mount RAM: FROM RAM SIZE=1024\n\n; Set environment variables\n; setenv PATH C: SYS:S\n\n; Run system tools\n; execute SYS:Tools/Shell-Startup\n"

CommandFiles ==
    << <<"C:Info", "System information utility">>,
       <<"C:Avail", "List available commands">>,
       <<"C:Status", "Show system status">>,
       <<"C:Mount", "Mount volumes">>,
       <<"C:Ed", "Text editor">>,
       <<"C:Dir", "Directory listing">>,
       <<"C:Cd", "Change directory">>,
       <<"C:Pattern", "Pattern matching utility">>,
       <<"C:Date", "Show date and time">>,
       <<"C:Echo", "Echo text to terminal">>,
       <<"C:Help", "Display help information">>,
       <<"C:Amiga", "Amiga easter egg command">>,
       <<"C:Ping", "Network ping utility">> >>

WebFiles ==
    << <<"SYS:Prefs/Env-Archive", "Environment variables archive">>,
       <<"SYS:Prefs/Env", "Current environment variables">>,
       <<"SYS:Tools/Shell-Startup", "Shell startup script">>,
       <<"SYS:S/Startup-Sequence", StartupSequence>>,
       <<"RAM:T/Temp-File", "Temporary file">> >> \o CommandFiles

ConsoleFiles ==
    << <<"SYS:Prefs/Env-Archive/PATH", "C: SYS:S SYS:C">>,
       <<"SYS:Prefs/Env-Archive/SHELL", "WSA Terminal">>,
       <<"SYS:Prefs/Env/PATH", "C: SYS:S SYS:C">>,
       <<"SYS:Prefs/Env/SHELL", "WSA Terminal">>,
       <<"SYS:Tools/Shell-Startup", "Shell startup script">>,
       <<"SYS:S/Startup-Sequence", StartupSequence>>,
       <<"RAM:T/Temp-File", "Temporary file">> >> \o CommandFiles \o
    << <<"C:WinUAE", "Launch WinUAE Amiga emulator">>,
       <<"C:Say", "Text-to-speech synthesis">>,
       <<"C:Guru", "Guru Meditation error demo">> >>

\* the DH0: content __init__ adds: on Windows the common directories that
\* exist on the C: drive, elsewhere a placeholder
CommonDirs == <<"Windows", "Program Files", "Users", "Documents and Settings", "Program Files (x86)">>

PlaceholderDirs == <<"Windows", "Program Files", "Users", "Documents and Settings">>

PlaceholderFiles ==
    << <<"DH0:/Windows/System32/kernel32.dll", "Windows kernel library">>,
       <<"DH0:/Windows/explorer.exe", "Windows Explorer">>,
       <<"DH0:/Program Files/", "Program Files directory">>,
       <<"DH0:/Users/", "Users directory">> >>

InitialDH0(plat, hdirs) ==
    IF plat = "Windows"
    THEN SelectSeq(CommonDirs, LAMBDA d : ("C:/" \o d) \in hdirs)
    ELSE PlaceholderDirs

InitialFiles(plat, base) == IF plat = "Windows" THEN base ELSE base \o PlaceholderFiles

\* an empty map: no mounted shared folder, no host file
NoEntries == [k \in {} |-> ""]

NoListing == [found |-> FALSE, dirs |-> <<>>, files |-> <<>>, footer |-> <<>>]

NoLast == [handler |-> "", arg |-> "", resolved |-> "", listed |-> "", shown |-> NoListing]

\* the session as __init__ builds it, before its startup script runs
Constructed ==
    /\ impl \in {"console", "web"}
    /\ platform \in {"Windows", "Linux"}
    /\ host_dirs \in (IF platform = "Windows"
                      THEN {{"C:/", "C:/Windows", "C:/share"}}
                      ELSE {{"/srv/share"}, {"/mnt/c", "/mnt/c/Windows", "/srv/share"}})
    /\ host_files = NoEntries
    /\ current_dir = "SYS:"
    /\ prompt = "SYS:> "
    /\ directories = Put(IF impl = "console" THEN ConsoleDirectories ELSE WebDirectories,
                         "DH0:", InitialDH0(platform, host_dirs))
    /\ files = InitialFiles(platform, IF impl = "console" THEN ConsoleFiles ELSE WebFiles)
    /\ command_history = <<>>
    /\ stack = <<>>
    /\ mounted = NoEntries
    /\ input = ""
    /\ last = NoLast
    /\ output = ""

\* the session after construction: the startup script the shells ship with
\* holds comments and empty lines only, so its run has changed nothing
Init ==
    /\ Constructed
    /\ pc = "prompt"
    /\ script = <<>>
    /\ line_no = 0

-----------------------------------------------------------------------------
\* Reading a line

Ran(h, a, r, l) == [handler |-> h, arg |-> a, resolved |-> r, listed |-> l, shown |-> NoListing]

\* The shell reads a line: cmdloop's input() in the console, the command of
\* the request in the web shell.
ReadLine(lines) ==
    /\ pc = "prompt"
    /\ impl = "web" => Len(command_history) < MaxHistory
    /\ input' \in lines
    /\ pc' = "dispatch"
    /\ last' = NoLast
    /\ output' = ""
    /\ UNCHANGED <<stack, script, line_no, impl, platform, current_dir, prompt, directories, files,
                   command_history, mounted, host_dirs, host_files>>

-----------------------------------------------------------------------------
\* Console commands: cmdloop reads a line, precmd rewrites it, onecmd
\* dispatches it

\* the line onecmd receives, parsed
Cmdline == Parseline(Precmd(input))

\* the console has read a line that onecmd dispatches to handler h
Dispatch(h) ==
    /\ impl = "console"
    /\ pc = "dispatch"
    /\ Onecmd(Precmd(input)) = h
    /\ pc' = "prompt"

\* do_cd
DoCd ==
    /\ Dispatch("cd")
    /\ LET r == ChangeDirectory(current_dir, prompt, Cmdline.arg)
       IN  IF Cmdline.arg = ""
           THEN /\ output' = "Current directory: " \o current_dir
                /\ UNCHANGED <<current_dir, prompt>>
           ELSE /\ current_dir' = r.current_dir
                /\ prompt' = r.prompt
                /\ output' = r.result
    /\ last' = Ran("cd", Cmdline.arg, "", "")
    /\ UNCHANGED <<stack, script, line_no, impl, platform, input, directories, files, command_history, mounted,
                   host_dirs, host_files>>

\* default: a device name that precmd left alone, or an unknown command
DoDefault ==
    /\ Dispatch("default")
    /\ LET r == ChangeDirectory(current_dir, prompt, Cmdline.line)
       IN  IF EndsWith(Upper(Cmdline.line), ":") /\ Has(directories, Upper(Cmdline.line))
           THEN /\ current_dir' = r.current_dir
                /\ prompt' = r.prompt
                /\ output' = r.result
           ELSE /\ output' = "Command '" \o Words(Cmdline.line)[1] \o
                             "' not found. Type 'help' for available commands."
                /\ UNCHANGED <<current_dir, prompt>>
    /\ last' = Ran("default", Cmdline.line, "", "")
    /\ UNCHANGED <<stack, script, line_no, impl, platform, input, directories, files, command_history, mounted,
                   host_dirs, host_files>>

\* whether _list_files finds the directory it is asked to list, for the
\* directory map dirs, the mounted folders mnt and the host directories hdirs
ListFilesFoundIn(dirs, mnt, hdirs, path) ==
    LET wsl == "/mnt/c" \in hdirs
    IN  IF DeviceOf(path) \in DOMAIN mnt
        THEN LET device == DeviceOf(path)
                 sub == Skip(path, Len(device))
                 sub_path == IF StartsWith(sub, "/") THEN Skip(sub, 1) ELSE sub
             IN  FsPath(mnt[device].path, IF path = device THEN "" ELSE sub_path) \in hdirs
        ELSE IF StartsWith(Upper(path), "DH0:")
             THEN IF wsl \/ IsWindows
                  THEN (IF Upper(path) = "DH0:"
                        THEN (IF wsl THEN "/mnt/c" ELSE "C:/")
                        ELSE FsPath(IF wsl THEN "/mnt/c" ELSE "C:/", DH0SubPath(path))) \in hdirs
                  ELSE TRUE
        ELSE IF path = "C:" THEN TRUE
        ELSE IF ~Has(dirs, path)
             THEN /\ Contains(path, ":")
                  /\ Take(path, IndexOf(path, ":")) = "SYS:"
                  /\ Has(dirs, "SYS:")
                  /\ InList(Skip(path, IndexOf(path, ":")), Get(dirs, "SYS:"))
        ELSE TRUE

ListFilesFound(path) == ListFilesFoundIn(directories, mounted, host_dirs, path)

\* the first line _list_files prints, without the day and the date
ListFilesHeader(path) ==
    IF ListFilesFound(path) THEN "Directory \"" \o path \o "\""
    ELSE "Directory " \o path \o " not found."

\* What a listing shows: the names on the "(dir)" lines, the names on the
\* file lines, and the three numbers of its last line; found is FALSE when
\* the listing is the "not found" line.
Listing(d, f, n, m, b) ==
    [found |-> TRUE, dirs |-> d, files |-> f, footer |-> <<n, m, b>>]

\* sum(len(fs[k]) for k in keys)
RECURSIVE TotalBytes(_, _)
TotalBytes(fs, keys) ==
    IF Len(keys) = 0 THEN 0 ELSE Len(Get(fs, Head(keys))) + TotalBytes(fs, Tail(keys))

\* the keys of fs that start with prefix and have no "/" after it, in the
\* order of the dictionary
KeysBelow(fs, prefix) ==
    SelectSeq(Keys(fs), LAMBDA k : /\ StartsWith(k, prefix)
                                   /\ ~Contains(Skip(k, Len(prefix)), "/"))

NamesBelow(keys, prefix) == [i \in 1..Len(keys) |-> Skip(keys[i], Len(prefix))]

\* os.listdir gives the entries in an order of its own
Orderings(S) ==
    {f \in [1..Cardinality(S) -> S] : \A i, j \in 1..Cardinality(S) : f[i] = f[j] => i = j}

\* the characters of the host's names in code point order
CodePoints == " ()-./0123456789:" \o UpperLetters \o "_" \o LowerLetters

CodePoint(c) == CHOOSE i \in 1..Len(CodePoints) : Char(CodePoints, i) = c

\* a < b for strings
RECURSIVE StrLess(_, _)
StrLess(a, b) ==
    IF Len(b) = 0 THEN FALSE
    ELSE IF Len(a) = 0 THEN TRUE
    ELSE IF Char(a, 1) = Char(b, 1) THEN StrLess(Skip(a, 1), Skip(b, 1))
    ELSE CodePoint(Char(a, 1)) < CodePoint(Char(b, 1))

\* names.sort(key=str.lower), for names that differ in lower case
SortedByLower(names) ==
    CHOOSE f \in Orderings(names) :
        \A i, j \in 1..Cardinality(names) : i < j => StrLess(Lower(f[i]), Lower(f[j]))

\* os.listdir(p) of the host, split by os.path.isdir
HostEntries(entries, p) ==
    LET prefix == IF EndsWith(p, "/") THEN p ELSE p \o "/"
    IN  {Skip(e, Len(prefix)) : e \in {x \in entries :
            /\ StartsWith(x, prefix)
            /\ Len(x) > Len(prefix)
            /\ ~Contains(Skip(x, Len(prefix)), "/")}}

RECURSIVE HostBytes(_, _)
HostBytes(p, names) ==
    IF Len(names) = 0 THEN 0
    ELSE Len(host_files[(IF EndsWith(p, "/") THEN p ELSE p \o "/") \o Head(names)])
         + HostBytes(p, Tail(names))

\* the listing of a directory of the host: _list_shared_folder_files and
\* the DH0: branch of _list_files
HostListing(fs_path) ==
    IF ~HostIsDir(fs_path) THEN NoListing
    ELSE LET dirs  == SortedByLower(HostEntries(host_dirs, fs_path))
             names == SortedByLower(HostEntries(DOMAIN host_files, fs_path))
         IN  Listing(dirs, names, Len(dirs) + Len(names), Len(dirs),
                     HostBytes(fs_path, names))

\* the listing that shows the commands of C: as files
CommandListing(fs, command_names) ==
    LET others == SelectSeq(NamesBelow(KeysBelow(fs, "C:"), "C:"),
                            LAMBDA n : n # "" /\ ~InList(n, command_names))
        sizes  == [i \in 1..Len(command_names) |->
                      IF Has(fs, "C:" \o command_names[i])
                      THEN Len(Get(fs, "C:" \o command_names[i])) ELSE 1024]
        Sum[i \in 0..Len(sizes)] == IF i = 0 THEN 0 ELSE sizes[i] + Sum[i - 1]
    IN  Listing(<<>>, command_names \o others, Len(command_names) + Len(others), 0,
                Sum[Len(sizes)]
                + TotalBytes(fs, [i \in 1..Len(others) |-> "C:" \o others[i]]))

\* the listing of a directory of the virtual store
VirtualListing(dirs, fs, path) ==
    LET keys == KeysBelow(fs, path \o "/")
    IN  Listing(dirs, NamesBelow(keys, path \o "/"), Len(dirs) + Len(keys), Len(dirs),
                TotalBytes(fs, keys))

\* _list_files: what the listing of path shows
ListFiles(path) ==
    IF DeviceOf(path) \in DOMAIN mounted
    THEN LET device == DeviceOf(path)
             sub == Skip(path, Len(device))
             sub_path == IF StartsWith(sub, "/") THEN Skip(sub, 1) ELSE sub
         IN  HostListing(FsPath(mounted[device].path, IF path = device THEN "" ELSE sub_path))
    ELSE IF StartsWith(Upper(path), "DH0:")
         THEN IF IsWsl \/ IsWindows
              THEN HostListing(IF Upper(path) = "DH0:"
                               THEN (IF IsWsl THEN "/mnt/c" ELSE "C:/")
                               ELSE ConsoleDH0FsPath(path))
              ELSE VirtualListing(IF Has(directories, path) THEN Get(directories, path)
                                  ELSE <<>>, files, path)
    ELSE IF path = "C:"
         THEN CommandListing(files, IF Has(directories, path) THEN Get(directories, path)
                                    ELSE <<>>)
    ELSE IF ~Has(directories, path)
         THEN IF /\ Contains(path, ":")
                 /\ Take(path, IndexOf(path, ":")) = "SYS:"
                 /\ Has(directories, "SYS:")
                 /\ InList(Skip(path, IndexOf(path, ":")), Get(directories, "SYS:"))
              THEN IF Skip(path, IndexOf(path, ":")) = "C"
                   THEN CommandListing(files, IF Has(directories, "C:")
                                              THEN Get(directories, "C:") ELSE <<>>)
                   ELSE LET l == VirtualListing(<<>>, files, path)
                        IN  Listing(<<>>, l.files, Len(l.files), 0, l.footer[3])
              ELSE NoListing
    ELSE VirtualListing(Get(directories, path), files, path)

\* do_dir: the argument is resolved here and once more by _list_files
DoDir ==
    /\ Dispatch("dir")
    /\ LET arg == Strip(Cmdline.arg)
           resolved_path == ResolvePath(current_dir, arg)
           path == IF arg # "" THEN ResolvePath(current_dir, resolved_path) ELSE current_dir
       IN  /\ output' = ListFilesHeader(path)
           /\ last' = [Ran("dir", Cmdline.arg, IF arg # "" THEN resolved_path ELSE "", path)
                         EXCEPT !.shown = ListFiles(path)]
    /\ UNCHANGED <<stack, script, line_no, impl, platform, input, current_dir, prompt, directories, files,
                   command_history, mounted, host_dirs, host_files>>

\* os.makedirs(base + sub): the directory and every directory above it
\* below base; written as one string, a leading separator of sub does not
\* replace base
MadeDirs(base, sub) ==
    LET segs == NormSegs(Split(sub, "/"), <<>>)
    IN  {FsPath(base, Join(SubSeq(segs, 1, k), "/")) : k \in 0..Len(segs)}

\* the directories makedir has added to self.directories
NewDirs == {i \in 1..Len(directories) :
              /\ ~Has(ConsoleDirectories, directories[i][1])
              /\ directories[i][1] \notin DOMAIN mounted}

\* do_makedir with _create_real_directory
DoMakedir ==
    /\ Dispatch("makedir")
    /\  LET dir_name == Strip(Cmdline.arg)
            relative == ~(\/ StartsWith(dir_name, "SYS:") \/ StartsWith(dir_name, "RAM:")
                          \/ StartsWith(dir_name, "C:") \/ StartsWith(dir_name, "DH0:"))
            dir_path == IF relative
                        THEN (IF EndsWith(current_dir, ":") THEN current_dir \o dir_name
                              ELSE current_dir \o "/" \o dir_name)
                        ELSE dir_name
            base == IF IsWsl THEN "/mnt/c" ELSE "C:/"
            made == MadeDirs(base, DH0SubPath(dir_name))
            created == Put(directories, dir_path, <<>>)
        IN  /\ last' = Ran("makedir", dir_name, "", "")
            /\ IF dir_name = ""
               THEN /\ output' = "MAKEDIR: No directory name specified\nUsage: MAKEDIR <directory_name>"
                    /\ UNCHANGED <<directories, host_dirs>>
               ELSE IF StartsWith(dir_name, "DH0:")
               THEN IF (IsWsl \/ IsWindows)
                       /\ \A a \in made : a \notin DOMAIN host_files
                    THEN /\ host_dirs' = host_dirs \cup made
                         /\ output' = "MAKEDIR: Directory '" \o dir_name \o "' created"
                         /\ UNCHANGED directories
                    ELSE /\ output' = "MAKEDIR: Failed to create directory '" \o dir_name \o "'"
                         /\ UNCHANGED <<directories, host_dirs>>
               ELSE IF ~Has(directories, dir_path)
               THEN /\ Cardinality(NewDirs) < MaxNewDirs
                    /\ directories' =
                         IF Has(directories, current_dir)
                            /\ ~InList(dir_name, Get(directories, current_dir))
                         THEN Put(created, current_dir,
                                  Append(Get(directories, current_dir), dir_name))
                         ELSE created
                    /\ output' = "MAKEDIR: Directory '" \o dir_name \o "' created"
                    /\ UNCHANGED host_dirs
               ELSE /\ output' = "MAKEDIR: Directory '" \o dir_name \o "' already exists"
                    /\ UNCHANGED <<directories, host_dirs>>
    /\ UNCHANGED <<stack, script, line_no, impl, platform, input, current_dir, prompt, files, command_history,
                   mounted, host_files>>

\* the host path _read_real_file and _write_real_file map a DH0: path onto
RealFilePath(amiga_path) ==
    FsPath(IF IsWsl THEN "/mnt/c" ELSE "C:/", DH0SubPath(amiga_path))

\* do_copy with _read_real_file and _write_real_file
DoCopy ==
    /\ Dispatch("copy")
    /\ LET args == Words(Cmdline.arg)
           source_path == ResolveFilePath(current_dir, args[1])
           dest_path == ResolveFilePath(current_dir, args[2])
           real == IsWsl \/ IsWindows
           readable == IF Has(files, source_path) THEN TRUE
                       ELSE /\ StartsWith(source_path, "DH0:")
                            /\ real
                            /\ RealFilePath(source_path) \in DOMAIN host_files
           source_content == IF Has(files, source_path) THEN Get(files, source_path)
                             ELSE host_files[RealFilePath(source_path)]
           fs_path == RealFilePath(dest_path)
           made == MadeDirs(IF IsWsl THEN "/mnt/c" ELSE "C:/",
                            Join(Front(NormSegs(Split(DH0SubPath(dest_path), "/"), <<>>)), "/"))
           writable == /\ real
                       /\ fs_path \notin host_dirs
                       /\ \A a \in made : a \notin DOMAIN host_files
       IN  /\ last' = Ran("copy", Cmdline.arg, "", "")
           /\ IF Cmdline.arg = ""
              THEN /\ output' = "COPY: No arguments specified\nUsage: COPY <source> <destination>"
                   /\ UNCHANGED <<files, host_dirs, host_files>>
              ELSE IF Len(args) < 2
              THEN /\ output' = "COPY: Missing destination\nUsage: COPY <source> <destination>"
                   /\ UNCHANGED <<files, host_dirs, host_files>>
              ELSE IF ~readable
              THEN /\ output' = IF StartsWith(source_path, "DH0:")
                                THEN "COPY: Cannot read source file '" \o args[1] \o "'"
                                ELSE "COPY: Source file '" \o args[1] \o "' not found"
                   /\ UNCHANGED <<files, host_dirs, host_files>>
              ELSE IF StartsWith(dest_path, "DH0:")
              THEN IF writable
                   THEN /\ host_dirs' = host_dirs \cup made
                        /\ host_files' = [k \in DOMAIN host_files \cup {fs_path} |->
                                             IF k = fs_path THEN source_content
                                             ELSE host_files[k]]
                        /\ output' = "COPY: '" \o args[1] \o "' copied to '" \o args[2] \o "'"
                        /\ UNCHANGED files
                   ELSE /\ output' = "COPY: Failed to copy to '" \o args[2] \o "'"
                        /\ UNCHANGED <<files, host_dirs, host_files>>
              ELSE /\ files' = Put(files, dest_path, source_content)
                   /\ output' = "COPY: '" \o args[1] \o "' copied to '" \o args[2] \o "'"
                   /\ UNCHANGED <<host_dirs, host_files>>
    /\ UNCHANGED <<stack, script, line_no, impl, platform, input, current_dir, prompt, directories,
                   command_history, mounted>>

\* what do_type prints for arg, with the host file it reads for a DH0:
\* path; print adds a newline
TypeOutput(fs, hdirs, hfiles, cur, arg) ==
    LET file_path == ResolveFilePath(cur, arg)
        wsl == "/mnt/c" \in hdirs
        fs_path == FsPath(IF wsl THEN "/mnt/c" ELSE "C:/", DH0SubPath(file_path))
    IN  IF arg = "" THEN "TYPE: No file specified\nUsage: TYPE <file>\n"
        ELSE IF Has(fs, file_path) THEN Get(fs, file_path) \o "\n"
        ELSE IF /\ StartsWith(file_path, "DH0:")
                /\ wsl \/ IsWindows
                /\ fs_path \in DOMAIN hfiles
             THEN hfiles[fs_path] \o "\n"
        ELSE "TYPE: File '" \o arg \o "' not found\n"

\* do_type
DoType ==
    /\ Dispatch("type")
    /\ last' = Ran("type", Cmdline.arg, ResolveFilePath(current_dir, Cmdline.arg), "")
    /\ output' = TypeOutput(files, host_dirs, host_files, current_dir, Cmdline.arg)
    /\ UNCHANGED <<stack, script, line_no, impl, platform, input, current_dir, prompt, directories, files,
                   command_history, mounted, host_dirs, host_files>>

\* the answers to "Delete '...' (y/N)?"
Answers == {"y", "n"}

\* do_delete with _real_file_exists and _delete_real_file
DoDelete ==
    /\ Dispatch("delete")
    /\ \E response \in Answers :
        LET arg == Cmdline.arg
            file_path == ResolveFilePath(current_dir, arg)
            is_real_file == /\ ~Has(files, file_path)
                            /\ StartsWith(file_path, "DH0:")
                            /\ IsWsl \/ IsWindows
                            /\ RealFilePath(file_path) \in DOMAIN host_files
        IN  /\ last' = Ran("delete", arg, file_path, "")
            /\ IF arg = ""
               THEN /\ output' = "DELETE: No file specified\nUsage: DELETE <file>"
                    /\ UNCHANGED <<files, host_files>>
               ELSE IF ~Has(files, file_path) /\ ~is_real_file
               THEN /\ output' = "DELETE: File '" \o arg \o "' not found"
                    /\ UNCHANGED <<files, host_files>>
               ELSE IF response \notin {"y", "yes"}
               THEN /\ output' = "DELETE: Operation cancelled"
                    /\ UNCHANGED <<files, host_files>>
               ELSE /\ output' = "DELETE: File '" \o arg \o "' deleted"
                    /\ IF is_real_file
                       THEN /\ host_files' = [k \in DOMAIN host_files \ {RealFilePath(file_path)}
                                                |-> host_files[k]]
                            /\ UNCHANGED files
                       ELSE /\ files' = Del(files, file_path)
                            /\ UNCHANGED host_files
    /\ UNCHANGED <<stack, script, line_no, impl, platform, input, current_dir, prompt, directories,
                   command_history, mounted, host_dirs>>

\* what is typed into the editor: lines of text and the commands LIST, SAVE
\* and QUIT; "^C" stands for the interrupt key, followed by the answer to
\* "Save changes before exiting? (y/N)"; a session that ends without QUIT
\* ends with the end of the input
EdSessions ==
    {<<"QUIT">>, <<"hi", "SAVE", "QUIT">>, <<"hi", "save", "", "LIST">>,
     <<"execute loop", "SAVE", "QUIT">>, <<"execute back", "SAVE", "QUIT">>,
     <<"hi", "^C", "y">>, <<"hi", "^C", "n">>}

\* the loop of _ed_editor: the lines at its end and the content of the last
\* save (none: <<>>)
RECURSIVE EdRun(_, _, _)
EdRun(lines, typed, saved) ==
    IF Len(typed) = 0 THEN [lines |-> lines, saved |-> saved]
    ELSE LET line_input == Head(typed)
             cmd == Upper(Strip(line_input))
         IN  IF line_input = "^C"
             THEN [lines |-> lines,
                   saved |-> IF Len(typed) > 1 /\ Lower(Strip(typed[2])) \in {"y", "yes"}
                             THEN <<Join(lines, "\n")>> ELSE saved]
             ELSE IF cmd = "LIST" THEN EdRun(lines, Tail(typed), saved)
             ELSE IF cmd = "SAVE" THEN EdRun(lines, Tail(typed), <<Join(lines, "\n")>>)
             ELSE IF cmd = "QUIT" THEN [lines |-> lines, saved |-> saved]
             ELSE IF cmd = "" THEN EdRun(Append(lines, ""), Tail(typed), saved)
             ELSE EdRun(Append(lines, line_input), Tail(typed), saved)

\* the directories a save to the host makes: os.makedirs(os.path.dirname(fs_path))
SaveMadeDirs(amiga_path) ==
    MadeDirs(IF IsWsl THEN "/mnt/c" ELSE "C:/",
             Join(Front(NormSegs(Split(DH0SubPath(amiga_path), "/"), <<>>)), "/"))

\* the save to the host goes through: no file stands where a directory is
\* needed and no directory where the file is written
SaveWritable(amiga_path) ==
    /\ RealFilePath(amiga_path) \notin host_dirs
    /\ \A a \in SaveMadeDirs(amiga_path) : a \notin DOMAIN host_files

\* do_ed with _ed_editor; the output is the line the last save printed
DoEd ==
    /\ Dispatch("ed")
    /\ \E typed \in EdSessions :
        LET arg == Cmdline.arg
            file_path == ResolveFilePath(current_dir, arg)
            fs_path == RealFilePath(file_path)
            content == IF Has(files, file_path) THEN Split(Get(files, file_path), "\n")
                       ELSE IF /\ StartsWith(file_path, "DH0:")
                               /\ IsWindows
                               /\ fs_path \in DOMAIN host_files
                            THEN Split(host_files[fs_path], "\n")
                       ELSE <<>>
            run == EdRun(content, typed, <<>>)
        IN  /\ last' = Ran("ed", arg, file_path, "")
            /\ IF arg = "" \/ Upper(arg) = "HELP" \/ run.saved = <<>>
               THEN /\ output' = ""
                    /\ UNCHANGED <<files, host_dirs, host_files>>
               ELSE /\ Len(run.lines) <= MaxEdLines
                    /\ IF ~StartsWith(file_path, "DH0:")
                       THEN /\ files' = Put(files, file_path, run.saved[1])
                            /\ output' = "File saved to virtual filesystem."
                            /\ UNCHANGED <<host_dirs, host_files>>
                       ELSE IF ~(IsWsl \/ IsWindows)
                       THEN /\ output' = "DH0: access not available on this system"
                            /\ UNCHANGED <<files, host_dirs, host_files>>
                       ELSE IF SaveWritable(file_path)
                       THEN /\ host_dirs' = host_dirs \cup SaveMadeDirs(file_path)
                            /\ host_files' = [k \in DOMAIN host_files \cup {fs_path} |->
                                                 IF k = fs_path THEN run.saved[1]
                                                 ELSE host_files[k]]
                            /\ output' = "File saved to " \o fs_path
                            /\ UNCHANGED files
                       ELSE /\ output' = "Error saving file"
                            /\ UNCHANGED <<files, host_dirs, host_files>>
    /\ UNCHANGED <<stack, script, line_no, impl, platform, input, current_dir, prompt, directories,
                   command_history, mounted>>

\* _pattern_command: the names that match in the file map, in its order;
\* the name of a file is what follows the current directory and one more
\* character
PatternNames(fs, cur, pattern) ==
    LET names == [i \in 1..Len(fs) |-> Skip(fs[i][1], Len(cur) + 1)]
        hits  == {i \in 1..Len(fs) :
                    /\ StartsWith(fs[i][1], cur)
                    /\ names[i] # ""
                    /\ ~Contains(names[i], "/")
                    /\ IF pattern = "#?" THEN Len(names[i]) = 1
                       ELSE IF StartsWith(pattern, "~")
                       THEN StartsWith(names[i], Skip(pattern, 1))
                       ELSE IF pattern = "*" THEN TRUE
                       ELSE names[i] = pattern}
    IN  SelectSeq(names, LAMBDA n : \E i \in hits : names[i] = n)

\* the lines _pattern_command prints for the matching names
RECURSIVE PatternLines(_, _)
PatternLines(names, mark) ==
    IF Len(names) = 0 THEN ""
    ELSE "  " \o Head(names) \o mark \o "\n" \o PatternLines(Tail(names), mark)

PatternHeader(cur, pattern) ==
    "Files matching pattern \"" \o pattern \o "\" in " \o cur \o ":\n"

\* an entry of the C: drive matches the pattern
PatternItem(item, pattern) ==
    \/ pattern = "*"
    \/ StartsWith(item, pattern)
    \/ StartsWith(pattern, "~") /\ StartsWith(item, Skip(pattern, 1))

\* do_pattern with _pattern_command; print adds a newline
DoPattern ==
    /\ Dispatch("pattern")
    /\ LET args == Words(Cmdline.arg)
           pattern == args[1]
           names == PatternNames(files, current_dir, pattern)
           host_items == HostEntries(host_dirs \cup DOMAIN host_files, "C:/")
           matching == {item \in host_items : PatternItem(item, pattern)}
       IN  IF Cmdline.arg = ""
           THEN /\ last' = Ran("pattern", Cmdline.arg, "", current_dir)
                /\ output' = "Usage: PATTERN <pattern>\n"
           ELSE IF /\ Upper(current_dir) = "DH0:"
                   /\ IsWindows
                   /\ HostIsDir("C:/")
                   /\ matching # {}
           THEN \E items \in Orderings(matching) :
                   /\ last' = [Ran("pattern", Cmdline.arg, "", current_dir)
                                 EXCEPT !.shown.found = TRUE, !.shown.files = items]
                   /\ output' = PatternHeader(current_dir, pattern)
                                \o PatternLines(SelectSeq(items, LAMBDA n : HostIsDir("C:/" \o n)),
                                                "/ (drwx)")
                                \o PatternLines(SelectSeq(items, LAMBDA n : ~HostIsDir("C:/" \o n)),
                                                " (rwed)")
                                \o "\n"
           ELSE /\ last' = [Ran("pattern", Cmdline.arg, "", current_dir)
                              EXCEPT !.shown.found = TRUE, !.shown.files = names]
                /\ output' = PatternHeader(current_dir, pattern)
                             \o (IF Len(names) = 0 THEN "  No files match the pattern.\n"
                                 ELSE PatternLines(names, " (rwed)"))
                             \o "\n"
    /\ UNCHANGED <<stack, script, line_no, impl, platform, input, current_dir, prompt, directories, files,
                   command_history, mounted, host_dirs, host_files>>

\* the depth of nested script runs the model follows
MaxDepth == 3

\* _run_startup_script(script_name, content) when it is called: the lines of
\* the content, the number of lines gone through and what the run has printed
ScriptRun(script_name, content) ==
    [name |-> script_name, lines |-> Split(content, "\n"), at |-> 0,
     out |-> "Executing " \o script_name \o "...\n"]

\* do_execute(arg) up to the call of _run_startup_script: the script it
\* finds, or what it prints when it runs none
ExecuteTarget(cur, arg) ==
    LET script_path == ResolveFilePath(cur, arg)
        fs_path == RealFilePath(script_path)
    IN  IF arg = ""
        THEN [found |-> FALSE, path |-> "", content |-> "",
              printed |-> "EXECUTE: No script specified\nUsage: EXECUTE <script>\n"]
        ELSE IF Has(files, script_path)
        THEN [found |-> TRUE, path |-> script_path, content |-> Get(files, script_path),
              printed |-> ""]
        ELSE IF /\ StartsWith(script_path, "DH0:")
                /\ IsWindows
                /\ fs_path \in DOMAIN host_files
        THEN [found |-> TRUE, path |-> script_path, content |-> host_files[fs_path],
              printed |-> ""]
        ELSE [found |-> FALSE, path |-> script_path, content |-> "",
              printed |-> "Script '" \o arg \o "' not found\n"]

\* do_execute, called by onecmd: the run of the script it finds is under way
\* when the step is over
DoExecute ==
    /\ impl = "console"
    /\ pc = "dispatch"
    /\ Onecmd(Precmd(input)) = "execute"
    /\ LET t == ExecuteTarget(current_dir, Cmdline.arg)
       IN  /\ last' = Ran("execute", Cmdline.arg, t.path, "")
           /\ IF t.found
              THEN /\ stack' = <<ScriptRun(t.path, t.content)>>
                   /\ pc' = "execute"
                   /\ output' = ""
              ELSE /\ stack' = <<>>
                   /\ pc' = "prompt"
                   /\ output' = t.printed
    /\ UNCHANGED <<script, line_no, impl, platform, input, current_dir, prompt, directories,
                   files, command_history, mounted, host_dirs, host_files>>

\* the innermost run and the line its loop is at, stripped
InnerRun == stack[Len(stack)]
InnerLine == Strip(InnerRun.lines[InnerRun.at + 1])

\* the loop of the innermost run is at a line
AtInnerLine ==
    /\ pc = "execute"
    /\ InnerRun.at < Len(InnerRun.lines)
    /\ pc' = "execute"

\* the innermost run goes on to its next line after printing text
InnerPrints(text) ==
    [stack EXCEPT ![Len(stack)].at = @ + 1, ![Len(stack)].out = @ \o text]

\* what print(output.strip()) adds for the captured output of a method
Captured(text) == IF Strip(text) # "" THEN Strip(text) \o "\n" ELSE ""

\* an empty line or a comment is skipped
ExecuteSkip ==
    /\ AtInnerLine
    /\ InnerLine = "" \/ StartsWith(InnerLine, ";")
    /\ stack' = InnerPrints("")
    /\ UNCHANGED <<script, line_no, impl, platform, input, current_dir, prompt, directories,
                   files, command_history, mounted, host_dirs, host_files, last, output>>

\* a line that starts with "echo "
ExecuteEcho ==
    /\ AtInnerLine
    /\ StartsWith(Lower(InnerLine), "echo ")
    /\ stack' = InnerPrints(Skip(InnerLine, 5) \o "\n")
    /\ UNCHANGED <<script, line_no, impl, platform, input, current_dir, prompt, directories,
                   files, command_history, mounted, host_dirs, host_files, last, output>>

\* the line is a command: neither skipped nor taken by the test for "echo "
IsInnerCommand ==
    /\ InnerLine # ""
    /\ ~StartsWith(InnerLine, ";")
    /\ ~StartsWith(Lower(InnerLine), "echo ")

InnerCmd == Lower(Words(InnerLine)[1])
InnerArgs == Join(Tail(Words(InnerLine)), " ")

\* a verb without a do_* method
ExecuteUnrecognized ==
    /\ AtInnerLine
    /\ IsInnerCommand
    /\ InnerCmd \notin ConsoleVerbs
    /\ stack' = InnerPrints("Startup command not recognized: " \o InnerLine \o "\n")
    /\ UNCHANGED <<script, line_no, impl, platform, input, current_dir, prompt, directories,
                   files, command_history, mounted, host_dirs, host_files, last, output>>

\* the line "execute <script>": method(args) is do_execute, which runs the
\* script it finds inside the run that called it, with its output captured
ExecuteNested ==
    /\ AtInnerLine
    /\ IsInnerCommand
    /\ InnerCmd = "execute"
    /\ LET t == ExecuteTarget(current_dir, InnerArgs)
       IN  IF t.found
           THEN /\ Len(stack) < MaxDepth
                /\ stack' = Append(InnerPrints(""), ScriptRun(t.path, t.content))
           ELSE stack' = InnerPrints(Captured(t.printed))
    /\ UNCHANGED <<script, line_no, impl, platform, input, current_dir, prompt, directories,
                   files, command_history, mounted, host_dirs, host_files, last, output>>

\* the loop of the innermost run has gone through every line: the run
\* returns, to the run that called it or to the prompt
ExecuteReturn ==
    /\ pc = "execute"
    /\ InnerRun.at = Len(InnerRun.lines)
    /\ IF Len(stack) = 1
       THEN /\ stack' = <<>>
            /\ pc' = "prompt"
            /\ output' = InnerRun.out
       ELSE /\ stack' = [Front(stack) EXCEPT ![Len(stack) - 1].out = @ \o Captured(InnerRun.out)]
            /\ pc' = "execute"
            /\ output' = output
    /\ UNCHANGED <<script, line_no, impl, platform, input, current_dir, prompt, directories,
                   files, command_history, mounted, host_dirs, host_files, last>>

\* EmulatorSharedFolder.mount_shared_folder and unmount_shared_folder take
\* the device upper-cased, with a ":" appended when missing
MountDevice(device) ==
    IF EndsWith(Upper(device), ":") THEN Upper(device) ELSE Upper(device) \o ":"

\* mount_shared_folder: <<success, message, entry of mounted_shared_folders>>
MountSharedFolder(device, emulator_type, config_name) ==
    LET dev == MountDevice(device)
        winuae == Lower(emulator_type) = "winuae"
        configs == IF winuae THEN WinUAEConfigs ELSE FsUAEConfigs
        title == IF winuae THEN "WinUAE" ELSE "FS-UAE"
    IN  IF Lower(emulator_type) \notin {"winuae", "fs-uae"}
        THEN <<FALSE, "Unknown emulator type: " \o emulator_type, <<>> >>
        ELSE IF config_name \notin DOMAIN configs
        THEN <<FALSE, title \o " config '" \o config_name \o "' not found", <<>> >>
        ELSE IF dev \notin DOMAIN configs[config_name]
        THEN <<FALSE, "Device " \o dev \o " not found in " \o title \o " config '"
                       \o config_name \o "'", <<>> >>
        ELSE <<TRUE, dev \o " mounted from " \o title \o " config '" \o config_name
                      \o "' (" \o configs[config_name][dev].label \o ")",
               [emulator |-> Lower(emulator_type), config |-> config_name,
                label |-> configs[config_name][dev].label,
                path |-> configs[config_name][dev].path]>>

\* the names of the directories directly below the host directory p
HostSubdirs(p) ==
    {Skip(d, Len(p) + 1) : d \in {e \in host_dirs :
        /\ StartsWith(e, p \o "/")
        /\ ~Contains(Skip(e, Len(p) + 1), "/")}}

\* s.strip('"')
RECURSIVE StripQuotes(_)
StripQuotes(s) ==
    IF Len(s) > 0 /\ Char(s, 1) = "\"" THEN StripQuotes(Skip(s, 1))
    ELSE IF Len(s) > 0 /\ Char(s, Len(s)) = "\"" THEN StripQuotes(Take(s, Len(s) - 1))
    ELSE s

\* _mount_command: the mounted volumes, one line per key of self.directories
RECURSIVE VolumeLines(_)
VolumeLines(keys) ==
    IF Len(keys) = 0 THEN ""
    ELSE LET vol == Head(keys)
         IN  (IF Upper(vol) = "DH0:" THEN "  " \o vol \o " (Windows C: Drive)\n"
              ELSE IF vol \in DOMAIN mounted
              THEN "  " \o vol \o " (" \o Upper(mounted[vol].emulator) \o " Shared: \""
                   \o mounted[vol].label \o "\" from " \o mounted[vol].config \o ")\n"
              ELSE "  " \o vol \o "\n") \o VolumeLines(Tail(keys))

MountCommand == "Mounted volumes:\n" \o VolumeLines(Keys(directories))

\* do_mount; of the displays of LIST and of the usage text the output keeps
\* the first line
DoMount ==
    /\ Dispatch("mount")
    /\  LET arg == Cmdline.arg
            args == Words(arg)
            m == MountSharedFolder(args[1], args[3], StripQuotes(Join(SubSeq(args, 4, Len(args)), " ")))
            dev == MountDevice(IF Upper(args[1]) = "UNMOUNT" THEN args[2] ELSE args[1])
        IN  /\ last' = Ran("mount", arg, "", "")
            /\ IF Len(args) = 0
               THEN /\ output' = MountCommand
                    /\ UNCHANGED <<directories, mounted>>
               ELSE IF Upper(args[1]) = "LIST"
               THEN /\ output' = IF Len(args) > 1 /\ Upper(args[2]) = "WINUAE"
                                 THEN "Available WinUAE Configurations:"
                                 ELSE IF Len(args) > 1 /\ Upper(args[2]) = "FS-UAE"
                                 THEN "No FS-UAE configurations found."
                                 ELSE "Available Emulator Configurations:"
                    /\ UNCHANGED <<directories, mounted>>
               ELSE IF Upper(args[1]) = "UNMOUNT"
               THEN IF Len(args) > 1
                    THEN IF dev \in DOMAIN mounted
                         THEN /\ mounted' = [d \in DOMAIN mounted \ {dev} |-> mounted[d]]
                              /\ directories' = Del(directories, dev)
                              /\ output' = dev \o " unmounted"
                         ELSE /\ output' = "Device " \o dev \o " is not mounted"
                              /\ UNCHANGED <<directories, mounted>>
                    ELSE /\ output' = "Usage: MOUNT UNMOUNT <device>"
                         /\ UNCHANGED <<directories, mounted>>
               ELSE IF Len(args) >= 4 /\ Upper(args[2]) = "FROM"
               THEN /\ output' = m[2]
                    /\ IF m[1]
                       THEN /\ mounted' = (dev :> m[3]) @@ mounted
                            /\ IF HostIsDir(m[3].path)
                               THEN \E contents \in Orderings(HostSubdirs(m[3].path)) :
                                        directories' = Put(directories, dev, contents)
                               ELSE IF m[3].path \in DOMAIN host_files
                               THEN directories' = Put(directories, dev, <<>>)
                               ELSE UNCHANGED directories
                       ELSE UNCHANGED <<directories, mounted>>
               ELSE /\ output' = "Usage:"
                    /\ UNCHANGED <<directories, mounted>>
    /\ UNCHANGED <<stack, script, line_no, impl, platform, input, current_dir, prompt, files, command_history,
                   host_dirs, host_files>>

\* The host filesystem changes between commands: a directory is made or an
\* empty directory is removed.
HostUniverse ==
    IF platform = "Windows" THEN {"C:/Windows", "C:/share"}
    ELSE {"/mnt/c/Windows", "/srv/share"}

HostParent(p) == Join(Front(Split(p, "/")), "/")

HostChange ==
    /\ pc = "prompt"
    /\ \E d \in HostUniverse :
        IF d \in host_dirs
        THEN /\ \A e \in host_dirs : ~StartsWith(e, d \o "/")
             /\ \A e \in DOMAIN host_files : ~StartsWith(e, d \o "/")
             /\ host_dirs' = host_dirs \ {d}
        ELSE /\ HostParent(d) \in HostUniverse => HostParent(d) \in host_dirs
             /\ host_dirs' = host_dirs \cup {d}
    /\ UNCHANGED <<stack, script, line_no, impl, platform, current_dir, prompt, directories, files,
                   command_history, mounted, host_files, pc, input, last, output>>

-----------------------------------------------------------------------------
\* Web shell commands: AmigaTerminal.execute_command

\* cmd = parts[0].lower()
WebCmd == Lower(Words(Strip(input))[1])

\* args = parts[1:], joined as the handlers join them
WebArg == Join(Tail(Words(Strip(input))), " ")

\* the test that makes a line a device name standing for cd
WebIsDevice ==
    /\ EndsWith(WebCmd, ":")
    /\ \E i \in 1..Len(directories) : Upper(directories[i][1]) = Upper(WebCmd)

\* the verbs execute_command knows
WebVerbs ==
    {"dir", "cd", "info", "avail", "status", "mount", "echo", "date", "help",
     "amiga", "ping", "pattern", "cls", "clear"}

\* the web shell has received a command
WebDispatch ==
    /\ impl = "web"
    /\ pc = "dispatch"
    /\ pc' = "prompt"

\* an empty line returns "" and records nothing
WebEmpty ==
    /\ WebDispatch
    /\ Words(Strip(input)) = <<>>
    /\ output' = ""
    /\ last' = Ran("empty", "", "", "")
    /\ UNCHANGED <<stack, script, line_no, impl, platform, input, current_dir, prompt, directories, files,
                   command_history, mounted, host_dirs, host_files>>

\* a device name: change_directory on the lower-cased token, no history entry
WebDevice ==
    /\ WebDispatch
    /\ Words(Strip(input)) # <<>>
    /\ WebIsDevice
    /\ LET r == WebChangeDirectory(current_dir, prompt, WebCmd)
       IN  /\ current_dir' = r.current_dir
           /\ prompt' = r.prompt
           /\ output' = r.result
    /\ last' = Ran("device", WebCmd, "", "")
    /\ UNCHANGED <<stack, script, line_no, impl, platform, input, directories, files, command_history, mounted,
                   host_dirs, host_files>>

\* a line that is no device name is recorded and dispatched on its verb
WebVerb(v) ==
    /\ WebDispatch
    /\ Words(Strip(input)) # <<>>
    /\ ~WebIsDevice
    /\ v = IF WebCmd \in WebVerbs THEN WebCmd ELSE "unknown"
    /\ command_history' = Append(command_history, input)

\* cd
WebCd ==
    /\ WebVerb("cd")
    /\ LET r == WebChangeDirectory(current_dir, prompt, WebArg)
       IN  /\ current_dir' = r.current_dir
           /\ prompt' = r.prompt
           /\ output' = r.result
    /\ last' = Ran("cd", WebArg, "", "")
    /\ UNCHANGED <<stack, script, line_no, impl, platform, input, directories, files, mounted, host_dirs,
                   host_files>>

\* whether list_files finds the directory, for the directory map dirs and
\* the host directories hdirs
WebListFilesFoundIn(dirs, hdirs, path) ==
    IF StartsWith(path, "DH0:")
    THEN IF IsWindows
         THEN (IF path = "DH0:" THEN "C:/" ELSE WebDH0FsPath(path)) \in hdirs
         ELSE TRUE
    ELSE Has(dirs, path)

WebListFilesFound(path) == WebListFilesFoundIn(directories, host_dirs, path)

\* list_files: what the listing of path shows; its last line gives the
\* number of directories and the number of files
WebListFiles(path) ==
    IF StartsWith(path, "DH0:") /\ IsWindows
    THEN LET l == HostListing(IF path = "DH0:" THEN "C:/" ELSE WebDH0FsPath(path))
         IN  IF l.found THEN [l EXCEPT !.footer = <<Len(l.dirs), Len(l.files)>>] ELSE l
    ELSE IF ~StartsWith(path, "DH0:") /\ ~Has(directories, path) THEN NoListing
    ELSE LET l == VirtualListing(IF Has(directories, path) THEN Get(directories, path)
                                 ELSE <<>>, files, path)
         IN  [l EXCEPT !.footer = <<Len(l.dirs), Len(l.files)>>]

\* dir: list_files of the current directory; the output keeps the first line
WebDir ==
    /\ WebVerb("dir")
    /\ output' = IF WebListFilesFound(current_dir)
                 THEN "Directory " \o current_dir \o "\n"
                 ELSE "Directory " \o current_dir \o " not found.\n"
    /\ last' = [Ran("dir", "", "", current_dir) EXCEPT !.shown = WebListFiles(current_dir)]
    /\ UNCHANGED <<stack, script, line_no, impl, platform, input, current_dir, prompt, directories, files,
                   mounted, host_dirs, host_files>>

\* a verb execute_command does not know
WebUnknown ==
    /\ WebVerb("unknown")
    /\ output' = "Command '" \o WebCmd \o
                 "' not found. Type 'help' for available commands.\n"
    /\ last' = Ran("unknown", WebArg, "", "")
    /\ UNCHANGED <<stack, script, line_no, impl, platform, input, current_dir, prompt, directories, files,
                   mounted, host_dirs, host_files>>

-----------------------------------------------------------------------------
\* Startup scripts: _run_startup_script of both shells

\* the lines a script of the model is made of
ScriptLines ==
    {"; comment", "", "echo ok", "bogus verb", "echo", "ECHO  a  b", "cd Prefs",
     "cd nodir", "RAM:", "dir"}

\* the lines of a script besides the script of scenario D
MaxScriptLen == 2

\* the script of scenario D
ScenarioD == <<"; comment", "", "echo ok", "bogus verb">>

\* content.split('\n') of the scripts a session runs
Scripts ==
    {ScenarioD}
        \cup UNION {[1..n -> ScriptLines] : n \in 0..MaxScriptLen}

\* the messages of the faults a handler raises
FaultMessages == {"boom"}

\* the script's name in the line the run starts with
ScriptName == "SYS:S/Startup-Sequence"

\* line = line.strip(), for the line the loop is at
ScriptLine == Strip(script[line_no + 1])

\* the loop of the run is at a line
AtScriptLine ==
    /\ pc = "script"
    /\ line_no < Len(script)
    /\ line_no' = line_no + 1
    /\ pc' = "script"

\* cmd = parts[0].lower() and args = ' '.join(parts[1:])
ScriptCmd == Lower(Words(ScriptLine)[1])
ScriptArgs == Join(Tail(Words(ScriptLine)), " ")

\* the line is neither skipped nor taken by the test for "echo "
IsScriptCommand ==
    /\ ScriptLine # ""
    /\ ~StartsWith(ScriptLine, ";")
    /\ ~StartsWith(Lower(ScriptLine), "echo ")

\* the run prints (console) or returns (web) its first line
ScriptStart ==
    /\ pc = "start"
    /\ pc' = "script"
    /\ output' = "Executing " \o ScriptName \o "...\n"
    /\ UNCHANGED <<stack, script, line_no, impl, platform, input, current_dir, prompt,
                   directories, files, command_history, mounted, host_dirs, host_files,
                   last>>

\* an empty line or a comment is skipped
ScriptSkip ==
    /\ AtScriptLine
    /\ ScriptLine = "" \/ StartsWith(ScriptLine, ";")
    /\ last' = Ran("skip", script[line_no + 1], "", "")
    /\ UNCHANGED <<stack, script, impl, platform, input, current_dir, prompt, directories,
                   files, command_history, mounted, host_dirs, host_files, output>>

\* a line that starts with "echo " in any letter case: line[5:] and a newline
ScriptEcho ==
    /\ AtScriptLine
    /\ StartsWith(Lower(ScriptLine), "echo ")
    /\ output' = output \o Skip(ScriptLine, 5) \o "\n"
    /\ last' = Ran("echo", script[line_no + 1], "", "")
    /\ UNCHANGED <<stack, script, impl, platform, input, current_dir, prompt, directories,
                   files, command_history, mounted, host_dirs, host_files>>

\* what method(args) does and prints for the do_* methods a script of the
\* model calls (of a listing the first line)
ConsoleScriptDo(cmd, args) ==
    IF cmd = "cd"
    THEN IF args = ""
         THEN CdResult(current_dir, prompt, "Current directory: " \o current_dir)
         ELSE ChangeDirectory(current_dir, prompt, args)
    ELSE IF cmd = "dir"
    THEN CdResult(current_dir, prompt,
                  ListFilesHeader(IF Strip(args) # ""
                                  THEN ResolvePath(current_dir, ResolvePath(current_dir, Strip(args)))
                                  ELSE current_dir))
    ELSE CdResult(current_dir, prompt, args)

\* console: a verb with a do_* method; what the method prints is captured
\* and printed stripped, when anything is left of it
ConsoleScriptCommand ==
    /\ AtScriptLine
    /\ impl = "console"
    /\ IsScriptCommand
    /\ ScriptCmd \in {"cd", "dir", "echo"}
    /\ LET r == ConsoleScriptDo(ScriptCmd, ScriptArgs)
       IN  /\ current_dir' = r.current_dir
           /\ prompt' = r.prompt
           /\ output' = output \o (IF Strip(r.result) # "" THEN Strip(r.result) \o "\n" ELSE "")
    /\ last' = Ran(ScriptCmd, script[line_no + 1], "", "")
    /\ UNCHANGED <<stack, script, impl, platform, input, directories, files, command_history,
                   mounted, host_dirs, host_files>>

\* web: the verbs of the if-chain; each result gets a newline appended, and
\* cd's result only when it is not empty
WebScriptCommand ==
    /\ AtScriptLine
    /\ impl = "web"
    /\ IsScriptCommand
    /\ ScriptCmd \in {"cd", "dir", "echo"}
    /\ LET r == WebChangeDirectory(current_dir, prompt, ScriptArgs)
       IN  IF ScriptCmd = "cd"
           THEN /\ current_dir' = r.current_dir
                /\ prompt' = r.prompt
                /\ output' = output \o (IF r.result # "" THEN r.result \o "\n" ELSE "")
           ELSE /\ output' = output \o
                     (IF ScriptCmd = "echo" THEN ScriptArgs
                      ELSE IF WebListFilesFound(current_dir)
                           THEN "Directory " \o current_dir \o "\n"
                           ELSE "Directory " \o current_dir \o " not found.\n") \o "\n"
                /\ UNCHANGED <<current_dir, prompt>>
    /\ last' = Ran(ScriptCmd, script[line_no + 1], "", "")
    /\ UNCHANGED <<stack, script, impl, platform, input, directories, files, command_history,
                   mounted, host_dirs, host_files>>

\* a verb the run does not know: no do_* method (console), not in the
\* if-chain (web)
ScriptUnrecognized ==
    /\ AtScriptLine
    /\ IsScriptCommand
    /\ ScriptCmd \notin (IF impl = "console" THEN ConsoleVerbs
                         ELSE WebVerbs \ {"cls", "clear"})
    /\ output' = output \o "Startup command not recognized: " \o ScriptLine \o "\n"
    /\ last' = Ran("unrecognized", script[line_no + 1], "", "")
    /\ UNCHANGED <<stack, script, impl, platform, input, current_dir, prompt, directories,
                   files, command_history, mounted, host_dirs, host_files>>

\* a run that a fault of a handler ends: the fault leaves the loop
ScriptFaultAborts ==
    /\ pc = "script"
    /\ line_no < Len(script)
    /\ IsScriptCommand
    /\ line_no' = line_no + 1
    /\ pc' = "prompt"
    /\ last' = Ran("fault", script[line_no + 1], "", "")
    /\ UNCHANGED <<stack, script, impl, platform, input, current_dir, prompt, directories,
                   files, command_history, mounted, host_dirs, host_files, output>>

\* the handler of the line raises: the except clause reports the fault and
\* the loop goes on with the next line
ScriptFault ==
    /\ AtScriptLine
    /\ IsScriptCommand
    /\ \E e \in FaultMessages :
           output' = output \o "Error executing startup command '" \o ScriptLine
                            \o "': " \o e \o "\n"
    /\ last' = Ran("fault", script[line_no + 1], "", "")
    /\ UNCHANGED <<stack, script, impl, platform, input, current_dir, prompt, directories,
                   files, command_history, mounted, host_dirs, host_files>>

\* the loop has gone through every line: the run returns
ScriptEnd ==
    /\ pc = "script"
    /\ line_no = Len(script)
    /\ pc' = "prompt"
    /\ UNCHANGED <<stack, script, line_no, impl, platform, input, current_dir, prompt,
                   directories, files, command_history, mounted, host_dirs, host_files,
                   last, output>>

-----------------------------------------------------------------------------
\* A session of either shell

SessionLines == IF impl = "console" THEN ConsoleLines ELSE WebLines

Next ==
    \/ ReadLine(SessionLines)
    \/ DoCd
    \/ DoDefault
    \/ DoDir
    \/ DoMount
    \/ HostChange
    \/ WebEmpty
    \/ WebDevice
    \/ WebCd
    \/ WebDir
    \/ WebUnknown

Spec == Init /\ [][Next]_vars

\* A console session that makes directories
InitMakedir == Init /\ impl = "console"

NextMakedir ==
    \/ ReadLine(MakedirLines)
    \/ DoCd
    \/ DoMakedir
    \/ DoMount

SpecMakedir == InitMakedir /\ [][NextMakedir]_vars

\* A console session that makes directories, copies files and lists
InitStore == Init /\ impl = "console"

NextStore ==
    \/ ReadLine(StoreLines)
    \/ DoCd
    \/ DoMakedir
    \/ DoCopy
    \/ DoDir

SpecStore == InitStore /\ [][NextStore]_vars

\* A console session that mounts and unmounts
NextMount ==
    \/ ReadLine(MountSessionLines)
    \/ DoMount
    \/ HostChange

SpecMount == InitStore /\ [][NextMount]_vars

\* A second console session on the same host, in the state its
\* construction leaves, runs `copy C:Echo DH0:n.txt`: do_copy with
\* _write_real_file
OtherSessionCopy ==
    /\ pc = "prompt"
    /\ IsWsl \/ IsWindows
    /\ SaveWritable("DH0:n.txt")
    /\ host_dirs' = host_dirs \cup SaveMadeDirs("DH0:n.txt")
    /\ host_files' = [k \in DOMAIN host_files \cup {RealFilePath("DH0:n.txt")} |->
                         IF k = RealFilePath("DH0:n.txt") THEN Get(ConsoleFiles, "C:Echo")
                         ELSE host_files[k]]
    /\ UNCHANGED <<stack, script, line_no, impl, platform, current_dir, prompt, directories, files,
                   command_history, mounted, pc, input, last, output>>

\* the second session runs `delete DH0:n.txt` and answers y: do_delete with
\* _delete_real_file
OtherSessionDelete ==
    /\ pc = "prompt"
    /\ IsWsl \/ IsWindows
    /\ RealFilePath("DH0:n.txt") \in DOMAIN host_files
    /\ host_files' = [k \in DOMAIN host_files \ {RealFilePath("DH0:n.txt")} |-> host_files[k]]
    /\ UNCHANGED <<stack, script, line_no, impl, platform, current_dir, prompt, directories, files,
                   command_history, mounted, host_dirs, pc, input, last, output>>

\* Two console sessions on one host
NextBeside ==
    \/ ReadLine(BesideLines)
    \/ DoCopy
    \/ DoType
    \/ DoDelete
    \/ OtherSessionCopy
    \/ OtherSessionDelete

SpecBeside == InitStore /\ [][NextBeside]_vars

\* A console session that matches patterns
NextPattern ==
    \/ ReadLine(PatternSessionLines)
    \/ DoCd
    \/ DoPattern

SpecPattern == InitStore /\ [][NextPattern]_vars

\* the steps of the run of a stored script
ExecuteStep ==
    \/ ExecuteSkip
    \/ ExecuteEcho
    \/ ExecuteUnrecognized
    \/ ExecuteNested
    \/ ExecuteReturn

\* A console session that stores scripts and runs them
NextExecute ==
    \/ ReadLine(ExecuteSessionLines)
    \/ DoEd
    \/ DoExecute
    \/ ExecuteStep

SpecExecute == InitStore /\ [][NextExecute]_vars

\* a step of the run is possible: a run is under way and its next step is
\* not a nested run below the depth the model follows
RunGoesOn ==
    /\ pc = "execute"
    /\ (/\ InnerRun.at < Len(InnerRun.lines)
        /\ IsInnerCommand
        /\ InnerCmd = "execute"
        /\ ExecuteTarget(current_dir, InnerArgs).found) => Len(stack) < MaxDepth
    /\ (/\ InnerRun.at < Len(InnerRun.lines)
        /\ IsInnerCommand
        /\ InnerCmd # "execute") => InnerCmd \notin ConsoleVerbs

\* the interpreter goes on with the run of a script it has begun: weak
\* fairness of the steps of the run
SpecExecuteFair ==
    InitStore /\ [][NextExecute]_vars /\ ([]<>(~RunGoesOn) \/ []<><<ExecuteStep>>_vars)

\* A console session that writes, reads and deletes files
NextFiles ==
    \/ ReadLine(FileLines)
    \/ DoMakedir
    \/ DoCopy
    \/ DoType
    \/ DoDelete
    \/ DoEd

SpecFiles == InitStore /\ [][NextFiles]_vars

\* the run of a script: _run_startup_script called on the session as
\* constructed
InitScript ==
    /\ Constructed
    /\ pc = "start"
    /\ script \in Scripts
    /\ line_no = 0

NextScript ==
    \/ ScriptStart
    \/ ScriptSkip
    \/ ScriptEcho
    \/ ConsoleScriptCommand
    \/ WebScriptCommand
    \/ ScriptUnrecognized
    \/ ScriptFault
    \/ ScriptEnd

SpecScript == InitScript /\ [][NextScript]_vars


-----------------------------------------------------------------------------
\* Properties

\* a command has just run: the step from a read line to the next prompt
CommandStep == pc = "dispatch" /\ pc' = "prompt"

\* a change-directory request has just run: cd, or a device name standing for it
CdStep == CommandStep /\ last'.handler \in {"cd", "default", "device"}

\* the device of a path: up to and with the first ":", "" without one
DevicePart(path) == Take(path, IndexOf(path, ":"))

\* the path below the device, without the "/" the overlay paths start with
BelowDevice(path) ==
    LET rest == Skip(path, IndexOf(path, ":"))
    IN  IF StartsWith(rest, "/") THEN Skip(rest, 1) ELSE rest

\* the device is in the device table: a key of the directory map dirs or a
\* shared folder of the mount table mnt, in any letter case
RegisteredIn(dirs, mnt, device) ==
    /\ device # ""
    /\ \/ \E i \in 1..Len(dirs) : Upper(dirs[i][1]) = Upper(device)
       \/ Upper(device) \in DOMAIN mnt

Registered(device) == RegisteredIn(directories, mounted, device)

\* the path is a directory of the virtual store: a key of the directory map
\* (with or without a "/" after the device) or a name its parent lists
VirtualDirIn(dirs, path) ==
    LET below == BelowDevice(path)
        canon == DevicePart(path) \o below
        segs == Split(below, "/")
        parent == DevicePart(path) \o Join(Front(segs), "/")
    IN  \/ Has(dirs, path)
        \/ Has(dirs, canon)
        \/ /\ below # ""
           /\ Has(dirs, parent)
           /\ InList(segs[Len(segs)], Get(dirs, parent))

\* the path is an existing directory of the host (its directories: hd) on an
\* overlay device
HostDirIn(mnt, hd, path) ==
    LET device == Upper(DevicePart(path))
    IN  IF device \in DOMAIN mnt
        THEN FsPath(mnt[device].path, BelowDevice(path)) \in hd
        ELSE /\ device = "DH0:"
             /\ IF impl = "console" THEN "/mnt/c" \in hd \/ IsWindows ELSE IsWindows
             /\ IF impl = "console"
                THEN FsPath(IF "/mnt/c" \in hd THEN "/mnt/c" ELSE "C:/", DH0SubPath(path)) \in hd
                ELSE WebDH0FsPath(path) \in hd

DirExistsIn(dirs, mnt, hd, path) ==
    /\ RegisteredIn(dirs, mnt, DevicePart(path))
    /\ VirtualDirIn(dirs, path) \/ HostDirIn(mnt, hd, path)

\* C1: every command ends with the current directory on a directory that
\* exists (its device registered, its path a virtual directory or an existing
\* host directory); only a directory the host removed between commands may be
\* missing, and then only while no command has moved away from it.
C1_CurrentDirExists ==
    [][CommandStep =>
         \/ DirExistsIn(directories', mounted', host_dirs', current_dir')
         \/ /\ current_dir' = current_dir
            /\ ~DirExistsIn(directories, mounted, host_dirs, current_dir)]_vars

\* C2: a change-directory request that fails returns a text and leaves the
\* current directory and the prompt as they were; a request for an unknown
\* device, a nonexistent path or a nonexistent target of "../x" does fail.
C2_FailedCdChangesNothing ==
    [][CdStep =>
         /\ output' # "" => current_dir' = current_dir /\ prompt' = prompt
         /\ last'.arg \in {"NOPE:", "nodir", "../nodir"} => output' # ""]_vars

\* C2 witness: "cd ../nodir" below a device root has failed with its text
C2_Witness ==
    /\ pc = "prompt"
    /\ last.handler = "cd"
    /\ last.arg = "../nodir"
    /\ output = "Directory nodir not found."
    /\ current_dir = "SYS:Prefs"
    /\ prompt = "SYS:Prefs> "

\* C3: "cd .." at the root of a registered device answers "already at root"
\* and stays at that root.
C3_ParentOfRootStays ==
    [][(/\ CdStep
        /\ last'.arg = ".."
        /\ EndsWith(current_dir, ":")
        /\ Registered(current_dir))
       => /\ current_dir' = current_dir
          /\ StartsWith(output', "Already at root")]_vars

\* the change-directory request of the running shell
Cd(cur, pr, path) ==
    IF impl = "console" THEN ChangeDirectory(cur, pr, path)
    ELSE WebChangeDirectory(cur, pr, path)

\* names tried as x in "cd ../x" and as child names
Tokens == {"Prefs", "Tools", "T", "Env", "nodir"}

\* C4: from every current directory, "cd ../x" ends where "cd .." followed
\* by "cd x" ends, and succeeds exactly when the second of the two does.
C4_UpThenDownIsTwoSteps ==
    pc = "prompt" =>
        \A x \in Tokens :
            LET one == Cd(current_dir, prompt, "../" \o x)
                up == Cd(current_dir, prompt, "..")
                two == Cd(up.current_dir, up.prompt, x)
            IN  /\ one.current_dir = two.current_dir
                /\ (one.result = "") = (two.result = "")

\* d is a child of c: a name the directory map lists below c or has a key for
IsChild(c, d) ==
    \/ Has(directories, c) /\ InList(d, Get(directories, c))
    \/ Has(directories, IF EndsWith(c, ":") THEN c \o d ELSE c \o "/" \o d)

\* names tried as the child d of "cd d"
ChildNames == {"Prefs", "T", "Env", "Windows", "shared", "a"}

\* C5: from every current directory c, after a "cd d" into a child d that
\* succeeds, "cd .." leads back to c.
C5_DownThenUpReturns ==
    pc = "prompt" =>
        \A d \in ChildNames :
            LET down == Cd(current_dir, prompt, d)
            IN  (IsChild(current_dir, d) /\ down.result = "")
                => Cd(down.current_dir, down.prompt, "..").current_dir = current_dir

\* C6: resolving a canonical path gives the path itself, and the path
\* "dir <path>" lists after its second resolution is the path its first
\* resolution gave.
C6_ResolveIdempotent ==
    /\ \A i \in 1..Len(directories) :
           ResolvePath(current_dir, directories[i][1]) = directories[i][1]
    /\ (pc = "prompt" /\ last.handler = "dir" /\ Strip(last.arg) # "")
           => last.listed = last.resolved

\* a token with no device and no ".." in front
IsRelative(t) == t # "" /\ ~Contains(t, ":") /\ t # ".." /\ ~StartsWith(t, "../")

\* "D:t" at a device root, "currentDir/t" elsewhere
Below(cur, t) == IF EndsWith(cur, ":") THEN cur \o t ELSE cur \o "/" \o t

\* C7: a relative token t resolves to D:t at a device root D: and to
\* currentDir/t elsewhere, in cd and in dir alike.
C7_RelativeTokenJoin ==
    [][CommandStep =>
         /\ (last'.handler = "cd" /\ IsRelative(last'.arg) /\ output' = "")
                => current_dir' = Below(current_dir, last'.arg)
         /\ (last'.handler = "dir" /\ IsRelative(Strip(last'.arg)))
                => last'.resolved = Below(current_dir, Strip(last'.arg))]_vars

\* the logical aliases of the specification and their targets
Aliases == {<<"S:", "SYS:S">>, <<"L:", "SYS:L">>, <<"DEVS:", "SYS:DEVS">>,
            <<"FONTS:", "SYS:Fonts">>, <<"T:", "RAM:T">>}

\* an alias as typed: upper case, lower case, first letter only in upper case
Spellings(name) == {name, Lower(name), Take(name, 1) \o Lower(Skip(name, 1))}

Remainders == {"", "x", "x/y", "Startup-Sequence"}

\* every spelling of every alias with every remainder, and the path expected
AliasCases ==
    UNION {{[token |-> sp \o r, expect |-> IF r = "" THEN a[2] ELSE a[2] \o "/" \o r] :
               sp \in Spellings(a[1]), r \in Remainders} : a \in Aliases}

\* C8: an alias in any letter case followed by a remainder r resolves to the
\* target of the alias with r appended as further segments, the bare alias to
\* the target itself, and no resolved path starts with an alias: so for the
\* argument dir has resolved, and for every alias token in its place.
C8_AliasResolves ==
    (pc = "prompt" /\ last.handler = "dir") =>
        /\ \A c \in AliasCases :
               LET resolved == ResolvePath(current_dir, c.token)
               IN  /\ resolved = c.expect
                   /\ \A b \in Aliases : ~StartsWith(Upper(resolved), b[1])
                   /\ Strip(last.arg) = c.token => last.resolved = resolved

\* C8 witness: "dir s:x" has listed x below the target of S:
C8_Witness ==
    /\ pc = "prompt"
    /\ input = "dir s:x"
    /\ last.handler = "dir"
    /\ last.resolved = "SYS:S/x"
    /\ last.listed = "SYS:S/x"

\* the registered spelling of a device typed in any letter case
RegisteredAs(device) ==
    IF \E i \in 1..Len(directories) : Upper(directories[i][1]) = Upper(device)
    THEN ActualDevice(Upper(device))
    ELSE Upper(device)

\* C9: cd to a registered device written in any letter case succeeds and
\* leads where its registered spelling leads; cd to a path whose device is
\* not registered fails.
C9_DeviceCaseInsensitive ==
    [][(CommandStep /\ last'.handler = "cd" /\ Contains(last'.arg, ":")) =>
         IF Registered(DevicePart(last'.arg))
         THEN EndsWith(last'.arg, ":")
                 => output' = "" /\ current_dir' = RegisteredAs(last'.arg)
         ELSE output' # "" /\ current_dir' = current_dir]_vars

\* the directory a device or alias token stands for, "" for any other token
ShorthandTarget(token) ==
    IF \E a \in Aliases : a[1] = Upper(token)
    THEN (CHOOSE a \in Aliases : a[1] = Upper(token))[2]
    ELSE IF EndsWith(token, ":") /\ Registered(token) THEN RegisteredAs(token)
    ELSE ""

\* C10: a line that is one token naming a registered device or an alias, in
\* any letter case, changes the current directory to the device root or the
\* alias target; a line with more tokens after the device is no such
\* shorthand and is handled as the command it names.
C10_DeviceShorthand ==
    [][CommandStep =>
         LET tokens == Words(input)
         IN  IF Len(tokens) = 1
             THEN ShorthandTarget(tokens[1]) # ""
                      => current_dir' = ShorthandTarget(tokens[1])
             ELSE (Len(tokens) > 1 /\ ShorthandTarget(tokens[1]) # "")
                      => /\ current_dir' = current_dir
                         /\ last'.handler \in {"default", "unknown"}]_vars

\* a line that is one token naming a registered device or an alias
IsShorthand(line) ==
    LET tokens == Words(line)
    IN  Len(tokens) = 1 /\ ShorthandTarget(tokens[1]) # ""

\* C11: the history of the web shell only grows at its end: a command line
\* that is neither empty nor device shorthand appends the raw line, also when
\* the command fails or is unknown; an empty line and a shorthand line append
\* nothing; no earlier entry changes.
C11_HistoryAppendOnly ==
    [][(CommandStep /\ impl = "web") =>
         IF Words(input) = <<>> \/ IsShorthand(input)
         THEN command_history' = command_history
         ELSE command_history' = Append(command_history, input)]_vars

\* the verbs the shell of this session knows
KnownVerbs == IF impl = "console" THEN ConsoleVerbs ELSE WebVerbs

\* the "command not found" texts for a verb: as typed or in lower case, with
\* or without the newline the web shell ends its results with
NotFoundTexts(verb) ==
    {"Command '" \o v \o "' not found. Type 'help' for available commands." \o nl :
        v \in {verb, Lower(verb)}, nl \in {"", "\n"}}

\* C12: a line whose verb is unknown and which is no device shorthand is
\* answered with the "command not found" text and leaves the current
\* directory, the device table, the directories and the files as they were;
\* the shell is back at its prompt.
C12_UnknownVerbChangesNothing ==
    [][(/\ pc = "dispatch"
        /\ Words(input) # <<>>
        /\ Lower(Words(input)[1]) \notin KnownVerbs
        /\ ~IsShorthand(input))
       => /\ pc' = "prompt"
          /\ output' \in NotFoundTexts(Words(input)[1])
          /\ current_dir' = current_dir
          /\ directories' = directories
          /\ mounted' = mounted
          /\ files' = files]_vars

\* the script run is at a line and takes its step
ScriptLineStep == pc = "script" /\ line_no < Len(script)

\* the run skips the line: it is empty or a comment
IsSkipped(line) == Strip(line) = "" \/ StartsWith(Strip(line), ";")

\* C13: the run goes through the lines of the script one by one in script
\* order: each step takes the next line, skips it exactly when it is empty or
\* a comment and otherwise processes it, and goes on to the line after it
\* whatever the line did; a fault is reported as "Error executing startup
\* command '<line>': <message>" and the run ends only after the last line.
C13_ScriptLinesIsolated ==
    [][/\ ScriptLineStep =>
            /\ pc' = "script" /\ line_no' = line_no + 1 /\ script' = script
            /\ last'.arg = script[line_no + 1]
            /\ last'.handler = "skip" <=> IsSkipped(script[line_no + 1])
            /\ last'.handler = "fault" =>
                  \E e \in FaultMessages :
                      output' = output \o "Error executing startup command '"
                                       \o Strip(script[line_no + 1]) \o "': " \o e \o "\n"
       /\ (pc = "script" /\ pc' = "prompt") => line_no = Len(script)]_vars

\* C13 witness: the first line raised a fault, the fault was reported and the
\* second line has run after it
C13_Witness ==
    /\ pc = "script"
    /\ script = <<"bogus verb", "echo ok">>
    /\ line_no = 2
    /\ last.handler = "echo"
    /\ output = "Executing SYS:S/Startup-Sequence...\n"
                    \o "Error executing startup command 'bogus verb': boom\nok\n"

\* what the console interpreter (precmd, onecmd and the handler) does with a
\* line of navigation, a listing or an unknown verb: the directory, the prompt
\* and the text printed
ConsoleExecute(line) ==
    IF Onecmd(Precmd(line)) = "cd"
    THEN IF Parseline(Precmd(line)).arg = ""
         THEN CdResult(current_dir, prompt, "Current directory: " \o current_dir)
         ELSE ChangeDirectory(current_dir, prompt, Parseline(Precmd(line)).arg)
    ELSE IF Onecmd(Precmd(line)) = "dir"
    THEN ConsoleScriptDo("dir", Parseline(Precmd(line)).arg)
    ELSE IF /\ EndsWith(Upper(Parseline(Precmd(line)).line), ":")
            /\ Has(directories, Upper(Parseline(Precmd(line)).line))
         THEN ChangeDirectory(current_dir, prompt, Parseline(Precmd(line)).line)
         ELSE CdResult(current_dir, prompt,
                       "Command '" \o Words(Parseline(Precmd(line)).line)[1] \o
                       "' not found. Type 'help' for available commands.")

\* what execute_command of the web shell does with such a line
WebExecute(line) ==
    IF /\ EndsWith(Lower(Words(line)[1]), ":")
       /\ \E i \in 1..Len(directories) :
              Upper(directories[i][1]) = Upper(Lower(Words(line)[1]))
    THEN WebChangeDirectory(current_dir, prompt, Lower(Words(line)[1]))
    ELSE IF Lower(Words(line)[1]) = "cd"
    THEN WebChangeDirectory(current_dir, prompt, Join(Tail(Words(line)), " "))
    ELSE IF Lower(Words(line)[1]) = "dir"
    THEN CdResult(current_dir, prompt,
                  IF WebListFilesFound(current_dir)
                  THEN "Directory " \o current_dir \o "\n"
                  ELSE "Directory " \o current_dir \o " not found.\n")
    ELSE CdResult(current_dir, prompt,
                  "Command '" \o Lower(Words(line)[1]) \o
                  "' not found. Type 'help' for available commands.\n")

\* whether execute_command records the line in the history
WebRecords(line) ==
    ~ /\ EndsWith(Lower(Words(line)[1]), ":")
      /\ \E i \in 1..Len(directories) :
             Upper(directories[i][1]) = Upper(Lower(Words(line)[1]))

\* a text without the newlines at its end
RECURSIVE WithoutNewlines(_)
WithoutNewlines(text) ==
    IF EndsWith(text, "\n") THEN WithoutNewlines(Take(text, Len(text) - 1)) ELSE text

\* the interpreter and its handlers agree with ConsoleExecute and WebExecute
ExecuteAgrees ==
    [][(CommandStep /\ last'.handler \in {"cd", "dir", "default", "device", "unknown"}) =>
         LET e == IF impl = "console" THEN ConsoleExecute(input) ELSE WebExecute(input)
         IN  /\ current_dir' = e.current_dir
             /\ prompt' = e.prompt
             /\ output' = e.result]_vars

\* C14: a script line that is neither skipped nor an echo line does what the
\* interpreter does with that line: the same current directory and prompt,
\* the same history entry, the same text (but for newlines at its end) added
\* to the output of the run, and the stores as the interpreter leaves them.
C14_ScriptLineAsInterpreter ==
    [][(/\ ScriptLineStep
        /\ IsScriptCommand
        /\ ScriptCmd # "echo"
        /\ last'.handler # "fault") =>
         LET e == IF impl = "console" THEN ConsoleExecute(ScriptLine)
                  ELSE WebExecute(ScriptLine)
         IN  /\ current_dir' = e.current_dir
             /\ prompt' = e.prompt
             /\ WithoutNewlines(Skip(output', Len(output))) = WithoutNewlines(e.result)
             /\ command_history' = IF impl = "web" /\ WebRecords(ScriptLine)
                                   THEN Append(command_history, ScriptLine)
                                   ELSE command_history
             /\ directories' = directories /\ files' = files /\ mounted' = mounted]_vars

\* C15: a skipped line (empty, or a comment) adds nothing to the output and
\* changes no state, and the output of the run is made of the results of the
\* other lines alone, in script order: the run of scenario D, with no fault,
\* ends with the output "ok" and the line that reports the unknown verb.
C15_ScriptOutputIsLineResults ==
    [][/\ (ScriptLineStep /\ IsSkipped(script[line_no + 1])) =>
            /\ output' = output
            /\ UNCHANGED <<current_dir, prompt, directories, files, command_history,
                           mounted>>
       /\ (ScriptLineStep /\ last'.handler = "unrecognized") =>
            output' = output \o "Startup command not recognized: "
                             \o Strip(script[line_no + 1]) \o "\n"
       /\ (/\ pc = "script" /\ pc' = "prompt"
           /\ script = ScenarioD /\ last.handler = "unrecognized") =>
            output' = "ok\nStartup command not recognized: bogus verb\n"]_vars

\* C16: a script line whose verb is echo, in any letter case, adds to the
\* output the remainder of the line after the verb (after the one space that
\* ends the verb, or after all of them) as it is written, and one newline; it
\* changes no session state.
C16_ScriptEchoVerbatim ==
    [][(/\ ScriptLineStep
        /\ ScriptLine # ""
        /\ ScriptCmd = "echo"
        /\ last'.handler # "fault") =>
         /\ \E remainder \in {Skip(ScriptLine, 5), LStrip(Skip(ScriptLine, 4))} :
                output' = output \o remainder \o "\n"
         /\ UNCHANGED <<current_dir, prompt, directories, files, command_history,
                        mounted>>]_vars


\* the segments of a path: its device, then the names below it
PathSegments(p) ==
    LET i == IndexOf(p, ":")
    IN  <<Take(p, i)>> \o SelectSeq(Split(Skip(p, i), "/"), LAMBDA n : n # "")

\* the paths of the entries a store holds: the files, the directories that
\* have a list of their own and the directories named in such a list
StoredPaths(dirs, fs) ==
    {fs[i][1] : i \in 1..Len(fs)}
    \cup {dirs[i][1] : i \in 1..Len(dirs)}
    \cup UNION {{Below(dirs[i][1], dirs[i][2][j]) : j \in 1..Len(dirs[i][2])} :
                i \in 1..Len(dirs)}

\* the names of the stored entries directly below d
StoredChildren(dirs, fs, d) ==
    LET ds == PathSegments(d)
    IN  {PathSegments(p)[Len(ds) + 1] :
            p \in {q \in StoredPaths(dirs, fs) :
                     /\ Len(PathSegments(q)) = Len(ds) + 1
                     /\ SubSeq(PathSegments(q), 1, Len(ds)) = ds}}

\* a directory of the virtual store: not on DH0: and not on a mounted device
IsVirtual(d) == ~StartsWith(Upper(d), "DH0:") /\ DeviceOf(d) \notin DOMAIN mounted

\* dir has just listed a virtual directory that it found
ListedVirtual ==
    /\ pc = "prompt"
    /\ last.handler = "dir"
    /\ last.shown.found
    /\ IsVirtual(last.listed)

ShownNames(l) == {l.dirs[i] : i \in 1..Len(l.dirs)} \cup {l.files[i] : i \in 1..Len(l.files)}

\* C17: the listing of a virtual directory d, a device root included, shows
\* the stored files and directories whose path is d plus exactly one more
\* segment, and shows no other entry.
C17_ListingShowsDirectChildren ==
    ListedVirtual => ShownNames(last.shown) = StoredChildren(directories, files, last.listed)


\* dir has just listed a directory that it found
ListedFound == pc = "prompt" /\ last.handler = "dir" /\ last.shown.found

\* the sum of the content lengths of the stored files named names below d
RECURSIVE ContentBytes(_, _, _)
ContentBytes(fs, d, names) ==
    IF Len(names) = 0 THEN 0
    ELSE (IF Has(fs, Below(d, Head(names))) THEN Len(Get(fs, Below(d, Head(names)))) ELSE 0)
         + ContentBytes(fs, d, Tail(names))

\* C18: the last line of a listing reports the number of files the directory
\* holds as its file count, the number of subdirectories as its directory
\* count, and the sum of the files' content lengths as its bytes; in a fresh
\* session the listing of SYS:, which holds no file, ends with
\* "0 files - <M> directories - 0 bytes used".
C18_FooterCounts ==
    ListedFound =>
        /\ last.shown.footer[1] = Len(last.shown.files)
        /\ last.shown.footer[2] = Len(last.shown.dirs)
        /\ IsVirtual(last.listed) =>
              last.shown.footer[3] = ContentBytes(files, last.listed, last.shown.files)


\* the directory above the virtual path d, and the name of d in it
ParentPath(d) ==
    LET segs == PathSegments(d)
    IN  IF Len(segs) <= 2 THEN segs[1]
        ELSE segs[1] \o Join(SubSeq(segs, 2, Len(segs) - 1), "/")

LastName(d) == PathSegments(d)[Len(PathSegments(d))]

\* the sub-directory names the listing of p shows for the directory map dirs
ShownDirs(dirs, fs, p) ==
    VirtualListing(IF Has(dirs, p) THEN Get(dirs, p) ELSE <<>>, fs, p).dirs

Occurrences(x, lst) == Cardinality({i \in 1..Len(lst) : lst[i] = x})

\* makedir has just added a directory to the virtual store
MakedirCreated ==
    /\ CommandStep
    /\ last'.handler = "makedir"
    /\ Len(directories') = Len(directories) + 1

\* C19: after makedir has created a directory d, whether it was named by a
\* plain name, a relative path of several segments or a path with a device,
\* the listing of the directory above d shows d exactly once, and the
\* listing of no other directory shows more than before.
C19_MakedirShowsInParentOnly ==
    [][MakedirCreated =>
         LET d == directories'[Len(directories')][1]
         IN  /\ Occurrences(LastName(d), ShownDirs(directories', files', ParentPath(d))) = 1
             /\ \A i \in 1..Len(directories) :
                  directories[i][1] # ParentPath(d) =>
                      Len(ShownDirs(directories', files', directories[i][1]))
                          = Len(ShownDirs(directories, files, directories[i][1]))]_vars


\* the names are in ascending order of their lower-case forms
AscendingByLower(names) ==
    \A i, j \in 1..Len(names) : i < j => ~StrLess(Lower(names[j]), Lower(names[i]))

\* C20: a listing, of the virtual store or of the host, shows the
\* directories before the files, the directory names in ascending order
\* without regard to case and the file names likewise, whatever the order
\* in which the entries were made.
C20_ListingSorted ==
    ListedFound => AscendingByLower(last.shown.dirs) /\ AscendingByLower(last.shown.files)


\* the path makedir is asked to make, from the name as typed
MakedirPath(cur, dir_name) ==
    IF \/ StartsWith(dir_name, "SYS:") \/ StartsWith(dir_name, "RAM:")
       \/ StartsWith(dir_name, "C:") \/ StartsWith(dir_name, "DH0:")
    THEN dir_name
    ELSE Below(cur, dir_name)

\* d is a directory of the store: a key of the directory map or a name in
\* the list of the directory above it
IsDirectoryIn(dirs, d) ==
    \/ Has(dirs, d)
    \/ /\ Len(PathSegments(d)) > 1
       /\ Has(dirs, ParentPath(d))
       /\ InList(LastName(d), Get(dirs, ParentPath(d)))

\* makedir has just run on a name of the virtual store
MakedirRan ==
    /\ CommandStep
    /\ last'.handler = "makedir"
    /\ last'.arg # ""
    /\ ~StartsWith(last'.arg, "DH0:")

\* C21: makedir on a path that is already a directory, as a key of the
\* directory map or as a name in the list of its parent, reports "already
\* exists" and leaves the directories, the files and the current directory
\* as they were; it reports "created" only for a directory that did not
\* exist.
C21_MakedirExisting ==
    [][MakedirRan =>
         (IsDirectoryIn(directories, MakedirPath(current_dir, last'.arg)) =>
              /\ output' = "MAKEDIR: Directory '" \o last'.arg \o "' already exists"
              /\ directories' = directories
              /\ files' = files
              /\ current_dir' = current_dir)]_vars


\* copy has just written its second argument
CopyWrote ==
    /\ CommandStep
    /\ last'.handler = "copy"
    /\ Len(Words(last'.arg)) >= 2
    /\ output' = "COPY: '" \o Words(last'.arg)[1] \o "' copied to '"
                     \o Words(last'.arg)[2] \o "'"

\* the content copy reads from its first argument
CopySource ==
    LET source_path == ResolveFilePath(current_dir, Words(last'.arg)[1])
    IN  IF Has(files, source_path) THEN Get(files, source_path)
        ELSE host_files[RealFilePath(source_path)]

\* the editor has just saved the file it was called on
EdSaved ==
    /\ CommandStep
    /\ last'.handler = "ed"
    /\ output' # ""
    /\ output' # "Error saving file"
    /\ output' # "DH0: access not available on this system"

\* the files of the store and of the host other than the one at p keep
\* their content
OthersKept(p) ==
    /\ \A i \in 1..Len(files) :
         files[i][1] # p => Has(files', files[i][1]) /\ Get(files', files[i][1]) = files[i][2]
    /\ \A k \in DOMAIN host_files :
         k # RealFilePath(p) => k \in DOMAIN host_files' /\ host_files'[k] = host_files[k]

\* the lines the editor starts from when it is called on arg
EdContent(arg) ==
    LET file_path == ResolveFilePath(current_dir, arg)
    IN  IF Has(files, file_path) THEN Split(Get(files, file_path), "\n")
        ELSE IF /\ StartsWith(file_path, "DH0:")
                /\ IsWindows
                /\ RealFilePath(file_path) \in DOMAIN host_files
             THEN Split(host_files[RealFilePath(file_path)], "\n")
        ELSE <<>>

\* the contents an editor session on arg can save last
EdSavedContents(arg) ==
    {EdRun(EdContent(arg), typed, <<>>).saved[1] :
        typed \in {t \in EdSessions : EdRun(EdContent(arg), t, <<>>).saved # <<>>}}

\* C22: after a write of content c to path p has succeeded, by copy or by
\* the editor's SAVE, reading p with type gives exactly c, also when p held
\* other content before, and the content of every other file is as before.
C22_WriteReadRoundTrip ==
    [][/\ CopyWrote =>
            /\ TypeOutput(files', host_dirs', host_files', current_dir', Words(last'.arg)[2])
                 = CopySource \o "\n"
            /\ OthersKept(ResolveFilePath(current_dir, Words(last'.arg)[2]))
       /\ EdSaved =>
            /\ \E c \in EdSavedContents(last'.arg) :
                 TypeOutput(files', host_dirs', host_files', current_dir', last'.arg) = c \o "\n"
            /\ OthersKept(last'.resolved)]_vars


\* C23: a write of a file, by copy or by the editor's SAVE, makes no
\* directory: the directories of the store and of the host are the same
\* before and after it, also when the directory above the file is absent.
C23_WriteMakesNoDirectory ==
    [][(CopyWrote \/ EdSaved) => directories' = directories /\ host_dirs' = host_dirs]_vars


\* C24: in every state a session reaches by makedir, copy, editor saves and
\* delete, no path is both a key of the directory map and a key of the file
\* map.
C24_DirectoryOrFile ==
    \A i \in 1..Len(directories) : ~Has(files, directories[i][1])


\* the command names a path on a mounted device whose host directory is
\* absent
OnAbsentRoot(arg) ==
    \E dev \in DOMAIN mounted :
        /\ ~HostIsDir(mounted[dev].path)
        /\ StartsWith(Upper(Strip(arg)), dev)

\* C25: a device is mounted whether or not its host directory exists, and
\* while that directory is absent every dir and every cd on the device, its
\* root included, reports "not found", and the cd leaves the current
\* directory as it was.
C25_AbsentRootNotFound ==
    [][(CommandStep /\ impl = "console") =>
         /\ (last'.handler = "mount" /\ last'.arg = "SHARED: from winuae a1200.uae") =>
                "SHARED:" \in DOMAIN mounted'
         /\ (last'.handler = "dir" /\ OnAbsentRoot(last'.arg)) => ~last'.shown.found
         /\ (last'.handler = "cd" /\ OnAbsentRoot(last'.arg)) =>
                /\ current_dir' = current_dir
                /\ EndsWith(output', " not found.")]_vars


BuiltInDevices == {"SYS:", "RAM:", "C:", "DH0:"}

\* C27: mount and unmount add and remove only the entry of a device that
\* mount added: whatever device they name, the built-in devices stay
\* registered with the child lists they had, and the files and the current
\* directory stay as they were.
C27_MountKeepsBuiltIns ==
    [][(CommandStep /\ last'.handler = "mount") =>
         /\ \A dev \in BuiltInDevices :
              Has(directories, dev) =>
                  Has(directories', dev) /\ Get(directories', dev) = Get(directories, dev)
         /\ files' = files
         /\ current_dir' = current_dir]_vars


\* a command of the other session has run
OtherSessionStep == pc = "prompt" /\ pc' = "prompt" /\ host_files' # host_files

\* the files a session reads
ReadableNames == {"note", "DH0:n.txt", "C:Echo"}

\* C26: sessions are isolated: a command of another session changes nothing
\* of this session, neither its current directory, history, directories and
\* files nor what its next command prints, so that each session runs as if
\* it ran alone.
C26_SessionsIsolated ==
    [][OtherSessionStep =>
         /\ UNCHANGED <<current_dir, prompt, command_history, directories, files, mounted,
                        output>>
         /\ \A arg \in ReadableNames :
              TypeOutput(files', host_dirs', host_files', current_dir', arg)
                  = TypeOutput(files, host_dirs, host_files, current_dir, arg)]_vars


\* a change of directory has just succeeded: it printed no message
CdSucceeded == CdStep /\ output' = "" /\ Words(input) # <<>>

\* C28: cd and the lister agree on what exists: right after a cd, or a
\* device name standing for it, has succeeded, a dir without argument lists
\* the new current directory and does not report "not found".
C28_CdAndDirAgree ==
    [][CdSucceeded =>
         IF impl = "console"
         THEN ListFilesFoundIn(directories', mounted', host_dirs', current_dir')
         ELSE WebListFilesFoundIn(directories', host_dirs', current_dir')]_vars


\* pattern has just matched a pattern in a virtual directory
PatternRan ==
    /\ CommandStep
    /\ last'.handler = "pattern"
    /\ last'.shown.found
    /\ IsVirtual(current_dir)

\* the full names of the files stored directly below d
DirectChildFiles(fs, d) ==
    LET ds == PathSegments(d)
    IN  {LastName(fs[i][1]) :
            i \in {j \in 1..Len(fs) :
                     /\ Len(PathSegments(fs[j][1])) = Len(ds) + 1
                     /\ SubSeq(PathSegments(fs[j][1]), 1, Len(ds)) = ds}}

\* the full name n matches the pattern: "*" matches every name, "~prefix" a
\* name that starts with the prefix, any other pattern the name equal to it
PatternMatches(n, pattern) ==
    IF pattern = "*" THEN TRUE
    ELSE IF StartsWith(pattern, "~") THEN StartsWith(n, Skip(pattern, 1))
    ELSE n = pattern

\* C29: in every virtual current directory, a device root such as C: included,
\* pattern * reports exactly the full names of the files stored directly below
\* the current directory, and pattern ~prefix and pattern <name> report exactly
\* those of these files whose full name matches.
C29_PatternReportsDirectChildFiles ==
    [][(PatternRan /\ last'.arg # "#?") =>
         {last'.shown.files[i] : i \in 1..Len(last'.shown.files)}
           = {n \in DirectChildFiles(files, current_dir) : PatternMatches(n, last'.arg)}]_vars

\* the same, away from the device roots
C29_PatternBelowRoot ==
    [][(PatternRan /\ last'.arg # "#?" /\ Len(PathSegments(current_dir)) > 1) =>
         {last'.shown.files[i] : i \in 1..Len(last'.shown.files)}
           = {n \in DirectChildFiles(files, current_dir) : PatternMatches(n, last'.arg)}]_vars


\* a step has started a run nested in the run under way
NestedRunStarted == pc = "execute" /\ pc' = "execute" /\ Len(stack') = Len(stack) + 1

C30_ReturnsWithoutReentry ==
    (pc = "execute") ~>
        (\/ pc = "prompt"
         \/ \E i, j \in 1..Len(stack) : i < j /\ stack[i].name = stack[j].name)
====
